---- MODULE Spec2Model ----
(***************************************************************************)
(* A model of solvere, the recursive validating DNS resolver:              *)
(*   - the record-set utilities and alias handling of resolver.go,         *)
(*   - the signature checks (lookupDNSKEY, checkDS, verifyRRSIG,           *)
(*     checkSignatures),                                                   *)
(*   - the NSEC3 denial checks,                                            *)
(*   - BasicCache (Add, Get, fullPrune) with its clock,                    *)
(*   - RecursiveResolver.Lookup with its nested nameserver lookups.        *)
(*                                                                         *)
(* Domain names are sequences of one-character strings, so that            *)
(* strings.HasSuffix, strings.TrimSuffix and dns.Split are computed on     *)
(* characters as the Go code computes them.  Resource records are records  *)
(* with the header fields name, rrtype and ttl plus the fields of their    *)
(* type.  The cryptographic primitives of the dns library are abstracted:  *)
(* an RRSIG carries the outcome of RRSIG.Verify and of ValidityPeriod, a   *)
(* DS carries the outcome of the digest comparison, an NSEC3 carries the   *)
(* names its hashed owner matches and its hashed interval covers.          *)
(***************************************************************************)
EXTENDS Integers, Sequences, FiniteSets, TLC

VARIABLES
    cache,      \* BasicCache.cache: hashQuestion(q) -> cacheEntry
    now,        \* BasicCache.clk, in seconds
    sweep,      \* the fullPrune call in progress: its pc and the ids it collected
    kept,       \* keys for which an Add(.., forever = true) has returned
    hist,       \* what the cache was asked to do: the last Add stored for each
                \* key, and when the sweeps scanned
    stack,      \* the active Lookup calls, the innermost nested one last
    outcome,    \* what the last top-level Lookup returned
    pending,    \* `go rr.cache.Add(...)` calls started and not yet run
    rr,         \* the RecursiveResolver: whether it was built with a cache
    ctxDone,    \* whether the context of the running Lookup is cancelled
    calls,      \* how many times a caller has called Lookup
    fnIn,       \* the arguments of the pure function under check
    fnOut,      \* its result
    conc        \* the cache's locks and the goroutines calling Get, Add and
                \* fullPrune, each at its position in the code

vars == <<cache, now, sweep, kept, hist, stack, outcome, pending, rr, ctxDone, calls,
          fnIn, fnOut, conc>>
cacheVars == <<cache, now, sweep, kept, hist>>
lookupVars == <<stack, outcome, pending, rr, ctxDone, calls>>
fnVars == <<fnIn, fnOut>>

(***************************************************************************)
(* Bounds of the model.                                                    *)
(***************************************************************************)
\* longest answer section given to isAlias
MaxAnswerLen == 3
\* largest record TTL given to the cache, in seconds
MaxTTL == 2
\* the clock stops here
MaxClock == 4
\* MaxReferrals, the configurable bound of Lookup's loop (10 by default)
MaxReferrals == 3
\* how many times a caller calls Lookup, one call after the other
MaxLookups == 2
\* the longest answer or authority section the signature checks are given
MaxSectionLen == 2
\* the deepest chain of nested Lookup calls the model follows
MaxDepth == MaxReferrals + 2

(***************************************************************************)
(* Names and record types.                                                 *)
(***************************************************************************)
Root == <<".">>
ZoneC == <<"c", ".">>
NameA == <<"a", ".", "c", ".">>
NameB == <<"b", ".", "c", ".">>
NameN == <<"n", ".", "c", ".">>
\* ends with the characters of ZoneC without a label boundary before them
NameXC == <<"x", "c", ".">>
Empty == <<>>

TypeA == "A"
TypeNS == "NS"
TypeCNAME == "CNAME"
TypeSOA == "SOA"
TypeDNAME == "DNAME"
TypeOPT == "OPT"
TypeDS == "DS"
TypeRRSIG == "RRSIG"
TypeDNSKEY == "DNSKEY"
TypeNSEC3 == "NSEC3"

RcodeSuccess == 0
RcodeServerFailure == 2
RcodeNameError == 3

A(name, ttl) == [name |-> name, rrtype |-> TypeA, ttl |-> ttl]
NS(name, ttl, ns) == [name |-> name, rrtype |-> TypeNS, ttl |-> ttl, ns |-> ns]
CNAME(name, ttl, target) ==
    [name |-> name, rrtype |-> TypeCNAME, ttl |-> ttl, target |-> target]
DNAME(name, ttl, target) ==
    [name |-> name, rrtype |-> TypeDNAME, ttl |-> ttl, target |-> target]
OPT == [name |-> Root, rrtype |-> TypeOPT, ttl |-> 0]
\* verifies: the outcome of sig.Verify(k, rest); inPeriod: of sig.ValidityPeriod
RRSIG(name, ttl, covered, tag, verifies, inPeriod, expiration) ==
    [name |-> name, rrtype |-> TypeRRSIG, ttl |-> ttl, TypeCovered |-> covered,
     KeyTag |-> tag, verifies |-> verifies, inPeriod |-> inPeriod,
     Expiration |-> expiration]
DNSKEY(name, ttl, tag, flags) ==
    [name |-> name, rrtype |-> TypeDNSKEY, ttl |-> ttl, KeyTag |-> tag, Flags |-> flags]
\* digest: "match" when ksk.ToDS(DigestType).Digest equals the DS digest,
\* "differ" when it does not, "refused" when ToDS returns nil
DS(name, ttl, tag, digest) ==
    [name |-> name, rrtype |-> TypeDS, ttl |-> ttl, KeyTag |-> tag, digest |-> digest]
\* matches: the names n with Match(n); covers: the names n with Cover(n)
NSEC3(name, ttl, matches, covers, types, optOut) ==
    [name |-> name, rrtype |-> TypeNSEC3, ttl |-> ttl, matches |-> matches,
     covers |-> covers, TypeBitMap |-> types, optOut |-> optOut]

NoError == "nil"

(***************************************************************************)
(* Strings.                                                                *)
(***************************************************************************)
HasSuffix(s, suffix) ==
    /\ Len(suffix) <= Len(s)
    /\ SubSeq(s, Len(s) - Len(suffix) + 1, Len(s)) = suffix

HasPrefix(s, prefix) ==
    /\ Len(prefix) <= Len(s)
    /\ SubSeq(s, 1, Len(prefix)) = prefix

TrimSuffix(s, suffix) ==
    IF HasSuffix(s, suffix) THEN SubSeq(s, 1, Len(s) - Len(suffix)) ELSE s

(***************************************************************************)
(* Record-set utilities (resolver.go).                                     *)
(***************************************************************************)
filterRRSet(in, rrTypes) ==
    LET keep(r) == r.rrtype \notin rrTypes IN SelectSeq(in, keep)

extractRRSet(in, name, t) ==
    LET keep(r) == r.rrtype \in t /\ (name = Empty \/ name = r.name)
    IN  SelectSeq(in, keep)

allOfType(a, t) == \A i \in DOMAIN a : a[i].rrtype = t

(***************************************************************************)
(* Alias handling (resolver.go).                                           *)
(***************************************************************************)
\* the map built by the first loop: a later record of an owner replaces an
\* earlier one
cnameMap(in) ==
    [n \in {in[i].name : i \in DOMAIN in} |->
        in[CHOOSE i \in DOMAIN in :
               /\ in[i].name = n
               /\ \A j \in DOMAIN in : in[j].name = n => j <= i]]

\* The second loop.  It ends only when qname is no key of the map.  It
\* visits a new key on every round unless the records form a cycle, so a
\* round beyond the number of keys means that the loop never ends:
\* diverged.
RECURSIVE chaseFrom(_, _, _, _, _)
chaseFrom(m, qname, canonical, chased, fuel) ==
    IF qname \notin DOMAIN m
    THEN [canonical |-> canonical, chased |-> chased, diverged |-> FALSE]
    ELSE IF fuel = 0
    THEN [canonical |-> canonical, chased |-> chased, diverged |-> TRUE]
    ELSE chaseFrom(m, m[qname].target, m[qname].target,
                   Append(chased, m[qname]), fuel - 1)

\* a collapse that stops after the first link
collapseFirstLink(qname, in) ==
    LET m == cnameMap(in)
    IN  IF qname \notin DOMAIN m
        THEN [canonical |-> Empty, chased |-> <<>>, diverged |-> FALSE]
        ELSE [canonical |-> m[qname].target, chased |-> <<m[qname]>>,
              diverged |-> FALSE]

collapseCNAMEChain(qname, in) ==
    LET m == cnameMap(in)
    IN  chaseFrom(m, qname, Empty, <<>>, Cardinality(DOMAIN m))

maxDomainLength == 256

dnameTooLong == "DNAME substitution creates too long sname"

NotAlias(err) ==
    [ok |-> FALSE, name |-> Empty, chased |-> <<>>, err |-> err, diverged |-> FALSE]
IsAliasOf(name, chased) ==
    [ok |-> TRUE, name |-> name, chased |-> chased, err |-> NoError, diverged |-> FALSE]

isAlias(answer, q) ==
    LET filtered == filterRRSet(answer, {TypeRRSIG}) IN
    IF Len(filtered) = 0 THEN NotAlias(NoError)
    ELSE IF Len(filtered) > 1 THEN
        IF ~allOfType(filtered, TypeCNAME) \/ q.Type = TypeCNAME
        THEN NotAlias(NoError)
        ELSE LET c == collapseCNAMEChain(q.Name, filtered)
             IN  [ok |-> TRUE, name |-> c.canonical, chased |-> c.chased,
                  err |-> NoError, diverged |-> c.diverged]
    ELSE LET alias == filtered[1] IN
        CASE alias.rrtype = TypeCNAME ->
                IF q.Type = TypeCNAME \/ q.Name # alias.name
                THEN NotAlias(NoError)
                ELSE IsAliasOf(alias.target, <<alias>>)
          [] alias.rrtype = TypeDNAME ->
                IF q.Type = TypeDNAME THEN NotAlias(NoError)
                ELSE IF ~HasSuffix(q.Name, alias.name) THEN NotAlias(NoError)
                ELSE LET sname == TrimSuffix(q.Name, alias.name) \o alias.target
                     IN  IF Len(sname) > maxDomainLength
                         THEN NotAlias(dnameTooLong)
                         ELSE IsAliasOf(sname, <<alias>>)
          [] OTHER -> NotAlias(NoError)

(***************************************************************************)
(* Signature checks: checkDS and verifyRRSIG.                              *)
(***************************************************************************)
ErrNoDNSKEY == "solvere: No DNSKEY records found"
ErrMissingKSK == "solvere: No KSK DNSKEY found for DS records"
ErrFailedToConvertKSK == "solvere: Failed to convert KSK DNSKEY record to DS record"
ErrMismatchingDS == "solvere: KSK DNSKEY record does not match DS record from parent zone"
ErrNoSignatures == "solvere: No RRSIG records for zone that should be signed"
ErrMissingDNSKEY == "solvere: No matching DNSKEY found for RRSIG records"
ErrInvalidSignaturePeriod == "solvere: Incorrect signature validity period"
ErrBadAnswer == "solvere: Query response returned a non-zero RCODE"
ErrRecordsMissing == "Records missing for signature"
\* the error sig.Verify returns
ErrVerify == "dns: bad signature"

Msg(rcode, answer, ns, extra) ==
    [Rcode |-> rcode, Answer |-> answer, Ns |-> ns, Extra |-> extra]

\* the key map lookupDNSKEY builds: key tag -> the last DNSKEY of the answer
\* with that tag and flags 256 or 257
keyMapOf(answer) ==
    LET isKey(i) == answer[i].rrtype = TypeDNSKEY /\ answer[i].Flags \in {256, 257}
        keys == {i \in DOMAIN answer : isKey(i)}
    IN  [t \in {answer[i].KeyTag : i \in keys} |->
            answer[CHOOSE i \in keys :
                      /\ answer[i].KeyTag = t
                      /\ \A j \in keys : answer[j].KeyTag = t => j <= i]]

\* checkDS that goes on to the next DS record after a digest that differs
RECURSIVE checkDSAnyFrom(_, _, _)
checkDSAnyFrom(keyMap, parentDSSet, i) ==
    IF i > Len(parentDSSet) THEN ErrMissingKSK
    ELSE IF parentDSSet[i].KeyTag \notin DOMAIN keyMap
    THEN checkDSAnyFrom(keyMap, parentDSSet, i + 1)
    ELSE IF parentDSSet[i].digest = "refused" THEN ErrFailedToConvertKSK
    ELSE IF parentDSSet[i].digest # "match"
    THEN checkDSAnyFrom(keyMap, parentDSSet, i + 1)
    ELSE NoError

RECURSIVE checkDSFrom(_, _, _)
checkDSFrom(keyMap, parentDSSet, i) ==
    IF i > Len(parentDSSet) THEN ErrMissingKSK
    ELSE IF parentDSSet[i].KeyTag \notin DOMAIN keyMap
    THEN checkDSFrom(keyMap, parentDSSet, i + 1)
    ELSE IF parentDSSet[i].digest = "refused" THEN ErrFailedToConvertKSK
    ELSE IF parentDSSet[i].digest # "match" THEN ErrMismatchingDS
    ELSE NoError

checkDSAny(keyMap, parentDSSet) == checkDSAnyFrom(keyMap, parentDSSet, 1)
checkDS(keyMap, parentDSSet) == checkDSFrom(keyMap, parentDSSet, 1)

\* the checks of one RRSIG without the test of its validity period
sigErrorAnyPeriod(section, sig, keyMap) ==
    IF Len(extractRRSet(section, sig.name, {sig.TypeCovered})) = 0
    THEN ErrRecordsMissing
    ELSE IF sig.KeyTag \notin DOMAIN keyMap THEN ErrMissingDNSKEY
    ELSE IF ~sig.verifies THEN ErrVerify
    ELSE NoError

\* the checks verifyRRSIG makes of one RRSIG of a section
sigError(section, sig, keyMap) ==
    IF Len(extractRRSet(section, sig.name, {sig.TypeCovered})) = 0
    THEN ErrRecordsMissing
    ELSE IF sig.KeyTag \notin DOMAIN keyMap THEN ErrMissingDNSKEY
    ELSE IF ~sig.verifies THEN ErrVerify
    ELSE IF ~sig.inPeriod THEN ErrInvalidSignaturePeriod
    ELSE NoError

RECURSIVE sigsError(_, _, _, _)
sigsError(section, sigs, i, keyMap) ==
    IF i > Len(sigs) THEN NoError
    ELSE IF sigError(section, sigs[i], keyMap) # NoError
    THEN sigError(section, sigs[i], keyMap)
    ELSE sigsError(section, sigs, i + 1, keyMap)

sectionError(section, keyMap) ==
    IF Len(section) = 0 THEN NoError
    ELSE LET sigs == extractRRSet(section, Empty, {TypeRRSIG})
         IN  IF Len(sigs) = 0 THEN ErrNoSignatures
             ELSE sigsError(section, sigs, 1, keyMap)

verifyRRSIG(msg, keyMap) ==
    IF sectionError(msg.Answer, keyMap) # NoError
    THEN sectionError(msg.Answer, keyMap)
    ELSE sectionError(msg.Ns, keyMap)

(***************************************************************************)
(* NSEC3 denial checks.                                                    *)
(***************************************************************************)
ErrNSECTypeExists == "NSEC record shows question type exists"
ErrNSECMultipleCoverage == "Multiple NSEC records cover next closer/source of synthesis"
ErrNSECMissingCoverage == "NSEC record missing for expected encloser"
ErrNSECBadDelegation == "DS or SOA bit set in NSEC type map"
ErrNSECNSMissing == "NS bit not set in NSEC type map"

typesSet(set, types) == set \cap types # {}

\* dns.Split: the positions at which the labels of name start, none for "."
Split(name) ==
    IF name = Root THEN <<>>
    ELSE LET starts == {p \in 1..Len(name) : p = 1 \/ name[p - 1] = "."}
             RECURSIVE sorted(_)
             sorted(S) == IF S = {} THEN <<>>
                          ELSE LET m == CHOOSE x \in S : \A y \in S : x <= y
                               IN  <<m>> \o sorted(S \ {m})
         IN  sorted(starts)

From(name, p) == SubSeq(name, p, Len(name))

Match(n, name) == name \in n.matches
Cover(n, name) == name \in n.covers

RECURSIVE closestFrom(_, _, _, _)
closestFrom(name, nsec, labelIndices, i) ==
    IF i > Len(labelIndices) THEN [ce |-> Empty, nc |-> Empty]
    ELSE IF \E k \in DOMAIN nsec : Match(nsec[k], From(name, labelIndices[i]))
    THEN [ce |-> From(name, labelIndices[i]),
          nc |-> IF i = 1 THEN name ELSE From(name, labelIndices[i - 1])]
    ELSE closestFrom(name, nsec, labelIndices, i + 1)

findClosestEncloser(name, nsec) == closestFrom(name, nsec, Split(name), 1)

\* findMatching with types starting as nil: the bitmap of the one matching
\* record, an error for none or for more than one
findMatchingFromNil(name, nsec) ==
    LET ks == {k \in DOMAIN nsec : Match(nsec[k], name)} IN
    IF ks = {} THEN [types |-> {}, err |-> ErrNSECMissingCoverage]
    ELSE IF Cardinality(ks) > 1 THEN [types |-> {}, err |-> ErrNSECMultipleCoverage]
    ELSE [types |-> nsec[CHOOSE k \in ks : TRUE].TypeBitMap, err |-> NoError]

\* types starts as an empty slice, which is not nil: the first record that
\* matches finds types != nil and returns ErrNSECMultipleCoverage, and with
\* no matching record the closing test types == nil fails and the empty
\* slice is returned with a nil error.
findMatching(name, nsec) ==
    IF \E k \in DOMAIN nsec : Match(nsec[k], name)
    THEN [types |-> {}, err |-> ErrNSECMultipleCoverage]
    ELSE [types |-> {}, err |-> NoError]

\* as findMatching, for the records that cover name
findCoverer(name, nsec) ==
    IF \E k \in DOMAIN nsec : Cover(nsec[k], name)
    THEN [types |-> {}, err |-> ErrNSECMultipleCoverage]
    ELSE [types |-> {}, err |-> NoError]

Wildcard(ce) == <<"*", ".">> \o ce

verifyNameError(q, nsec) ==
    LET ce == findClosestEncloser(q.Name, nsec).ce IN
    IF ce = Empty THEN ErrNSECMissingCoverage
    ELSE IF findMatching(q.Name, nsec).err # NoError
    THEN findMatching(q.Name, nsec).err
    ELSE findCoverer(Wildcard(ce), nsec).err

verifyNODATA(q, nsec) ==
    LET m == findMatching(q.Name, nsec)
        e == findClosestEncloser(q.Name, nsec)
    IN  IF m.err = NoError THEN
            IF typesSet(m.types, {q.Type, TypeCNAME}) THEN ErrNSECTypeExists
            ELSE IF HasPrefix(q.Name, <<"*", ".">>) THEN
                IF e.ce = Empty THEN ErrNSECMissingCoverage
                ELSE LET w == findMatching(Wildcard(e.ce), nsec)
                     IN  IF w.err # NoError THEN w.err
                         ELSE IF typesSet(w.types, {q.Type, TypeCNAME})
                         THEN ErrNSECTypeExists
                         ELSE NoError
            ELSE NoError
        ELSE IF q.Type # TypeDS THEN m.err
        ELSE IF e.ce = Empty THEN ErrNSECMissingCoverage
        ELSE findCoverer(e.nc, nsec).err

verifyDelegation(delegation, nsec) ==
    LET m == findMatching(delegation, nsec)
        e == findClosestEncloser(delegation, nsec)
    IN  IF m.err # NoError THEN
            IF e.ce = Empty THEN ErrNSECMissingCoverage
            ELSE findCoverer(e.nc, nsec).err
        ELSE IF ~typesSet(m.types, {TypeNS}) THEN ErrNSECNSMissing
        ELSE IF typesSet(m.types, {TypeDS, TypeSOA}) THEN ErrNSECBadDelegation
        ELSE NoError

(***************************************************************************)
(* The question/answer cache (BasicCache).                                 *)
(***************************************************************************)
Question(name, type) == [Name |-> name, Type |-> type]

Answer(answer, authority, additional, rcode, authenticated) ==
    [Answer |-> answer, Authority |-> authority, Additional |-> additional,
     Rcode |-> rcode, Authenticated |-> authenticated]

\* the nil *Answer
NilAnswer == [nil |-> TRUE]

\* sha1 over the type bytes and the name: one key per (type, name)
hashQuestion(q) == <<q.Type, q.Name>>

\* Go's integer division truncates towards zero
Quo(a, b) == IF a >= 0 THEN a \div b ELSE -((-a) \div b)

\* year68 = 1 << 31 is one more than the largest integer of this model
year68Less1 == 2147483647
\* x / year68 and m * year68, for the integers of this model
QuoYear68(x) == IF x = -year68Less1 - 1 THEN -1 ELSE 0
MulYear68(m) == IF m = 0 THEN 0 ELSE m * year68Less1 + m

nanosPerSecond == 1000000000

\* the seconds until the signature expires, as minTTL computes them (every
\* integer of this model is below math.MaxUint32)
expiresIn(sig, n) ==
    LET mod == QuoYear68(sig.Expiration - n)
        t == sig.Expiration + MulYear68(mod)
    IN  Quo(t - n, nanosPerSecond)

\* min = -1 stands for the nil pointer
RECURSIVE minTTLFrom(_, _, _, _)
minTTLFrom(a, i, min, n) ==
    IF i > Len(a) THEN (IF min = -1 THEN 0 ELSE min)
    ELSE IF min = -1 THEN minTTLFrom(a, i + 1, a[i].ttl, n)
    ELSE LET m1 == IF a[i].ttl < min THEN a[i].ttl ELSE min
             m2 == IF /\ a[i].rrtype = TypeRRSIG
                      /\ expiresIn(a[i], n) > 0
                      /\ expiresIn(a[i], n) < m1
                   THEN expiresIn(a[i], n) ELSE m1
         IN  minTTLFrom(a, i + 1, m2, n)

minTTL(a, n) == minTTLFrom(a, 1, -1, n)

cacheEntry(answer, ttl, modified, forever) ==
    [answer |-> answer, ttl |-> ttl, modified |-> modified, forever |-> forever]

\* an update that leaves the time of the last change as it was
updateKeepModified(ce, answer, ttl, n) ==
    [ce EXCEPT !.answer = answer, !.ttl = ttl]
update(ce, answer, ttl, n) ==
    [ce EXCEPT !.answer = answer, !.ttl = ttl, !.modified = n]

\* an entry that lives one second longer
expiredLate(ce, n) == IF ce.forever THEN FALSE ELSE n > ce.modified + ce.ttl + 1
\* clk.Now().After(modified + ttl seconds)
expired(ce, n) == IF ce.forever THEN FALSE ELSE n > ce.modified + ce.ttl

\* the cache after bc.Add(q, answer, forever) at time n
Add(c, q, answer, forever, n) ==
    LET id == hashQuestion(q)
        ttl == IF ~forever
               THEN minTTL(answer.Answer \o answer.Additional \o answer.Authority, n)
               ELSE 0
    IN  IF ~forever /\ ttl = 0 THEN c
        ELSE IF id \in DOMAIN c
        THEN [c EXCEPT ![id] = update(c[id], answer, ttl, n)]
        ELSE [k \in DOMAIN c \cup {id} |->
                IF k = id THEN cacheEntry(answer, ttl, n, forever) ELSE c[k]]

Get(c, q) ==
    IF hashQuestion(q) \in DOMAIN c THEN c[hashQuestion(q)].answer ELSE NilAnswer

\* bc.del(id)
del(c, id) == [k \in DOMAIN c \ {id} |-> c[k]]

\* the ids fullPrune collects under the read lock
expiredIds(c, n) == {id \in DOMAIN c : expired(c[id], n)}

EmptyCache == [k \in {} |-> NilAnswer]
SweepIdle == [pc |-> "idle", ids |-> {}]

\* Nothing asked yet.  adds maps a key to the last Add that stored for it:
\* the entry that Add alone makes of an empty cache, and whether it is the
\* only Add stored for the key.  scanAt is the time of the last scan of
\* fullPrune, swept the time of the scan of the last fullPrune that returned.
NoHistory == [adds |-> [k \in {} |-> NilAnswer], scanAt |-> -1, swept |-> -1]

\* whether bc.Add(q, answer, forever) at time n gets past its test of ttl
Stores(answer, forever, n) ==
    forever \/ minTTL(answer.Answer \o answer.Additional \o answer.Authority, n) # 0

\* the history after bc.Add(q, answer, forever) at time n
Added(h, q, answer, forever, n) ==
    LET id == hashQuestion(q) IN
    IF ~Stores(answer, forever, n) THEN h
    ELSE [h EXCEPT !.adds =
            [k \in DOMAIN h.adds \cup {id} |->
                IF k = id
                THEN [alone |-> Add(EmptyCache, q, answer, forever, n)[id],
                      once |-> id \notin DOMAIN h.adds]
                ELSE h.adds[k]]]

(***************************************************************************)
(* The locks of the cache: BasicCache.mu (a sync.RWMutex) and the mu of    *)
(* each cacheEntry (a sync.Mutex), and the goroutines that take them.      *)
(***************************************************************************)
\* the goroutines that call Get and Add, and the one NewBasicCache starts
Clients == {"c1", "c2"}
Sweeper == "sweeper"
Threads == Clients \cup {Sweeper}
NoThread == "none"
Ids == {hashQuestion(Question(NameA, TypeA)), hashQuestion(Question(NameB, TypeA))}
\* the cacheEntry objects that can be alive at once: one per key in the map
\* and one that a Get still points to after it was deleted from the map
MaxEntries == 3
Entries == 1..MaxEntries
NoEntry == 0

\* a goroutine outside any call
Idle == [pc |-> "idle", id |-> <<>>, entry |-> NoEntry, stores |-> FALSE,
         todo |-> {}, ids |-> <<>>]
\* w: the writer that has called bc.mu.Lock (it holds the lock once the
\* readers have left); readers: the holders of bc.mu.RLock; map: bc.cache as
\* key -> cacheEntry object; emu: the holder of each cacheEntry's mu
NoCalls ==
    [w |-> NoThread, readers |-> {}, map |-> [id \in {} |-> NoEntry],
     emu |-> [e \in Entries |-> NoThread], th |-> [t \in Threads |-> Idle]]

(***************************************************************************)
(* States of the parts of the program a specification leaves alone.        *)
(***************************************************************************)
NotCalled == [called |-> FALSE]
Returned(res) == [called |-> TRUE, res |-> res]
NoOutcome == [done |-> FALSE]

CacheIdle ==
    /\ cache = EmptyCache
    /\ now = 0
    /\ sweep = SweepIdle
    /\ kept = {}
    /\ hist = NoHistory
LookupIdle ==
    /\ stack = <<>>
    /\ outcome = NoOutcome
    /\ pending = {}
    /\ rr = [cache |-> TRUE]
    /\ ctxDone = FALSE
    /\ calls = 0
FnIdle ==
    /\ fnIn = NotCalled
    /\ fnOut = NotCalled
ConcIdle == conc = NoCalls

SeqsUpTo(S, n) == UNION {[1..k -> S] : k \in 0..n}

(***************************************************************************)
(* The recursive resolver (resolver.go).                                   *)
(***************************************************************************)
ErrTooManyReferrals == "solvere: Too many referrals"
ErrNoNSAuthorties == "solvere: No NS authority records found"
ErrNoAuthorityAddress == "solvere: No A/AAAA records found for the chosen authority"
ErrOutOfBailiwick == "Out of bailiwick record in message"
ErrAliasLoop == "Alias loop detected, aborting"
ErrUnsignedDelegation == "unsigned delegation in signed zone without NSEC records"
ErrAuthorityLookup == "Authority lookup failed"
\* what ExchangeContext returns when the exchange fails or the context is done
ErrExchange == "exchange failed"

Nameserver(name, addr, zone) == [Name |-> name, Addr |-> addr, Zone |-> zone]

\* rr.rootNameservers, built from the root hints
rootNameservers == {Nameserver(<<"r", ".">>, "198.41.0.4", Root)}

\* the trust anchors given to NewRecursiveResolver
RootKeyTag == 1
rootKeys == <<DNSKEY(Root, 1, RootKeyTag, 257)>>
RootKeyQuestion == Question(Root, TypeDNSKEY)

\* the cache NewRecursiveResolver leaves: the root keys, kept forever
NewResolverCache ==
    Add(EmptyCache, RootKeyQuestion,
        Answer(rootKeys, <<>>, <<>>, RcodeSuccess, TRUE), TRUE, 0)

\* the test of query on the records of a response
bailiwick(r, zone) ==
    \A section \in {r.Answer, r.Ns} : \A i \in DOMAIN section :
        section[i].rrtype = TypeOPT \/ HasSuffix(section[i].name, zone)

\* newLookupLog, with the fields Lookup sets
StepLog(cacheHit, valid) ==
    [CacheHit |-> cacheHit, DNSSECValid |-> valid, Referral |-> FALSE,
     Error |-> NoError]

NoMsg == [none |-> TRUE]
NoRet == [none |-> TRUE]
\* a nil key map
NoKeyMap == [t \in {} |-> NoMsg]
\* no call of lookupDNSKEY yet
NoKeys == [zone |-> Empty, keyMap |-> NoKeyMap]

\* The locals of a Lookup call at its start.  ll is ll.Composites and
\* llValid is ll.DNSSECValid.  asked, hops, questions and exchanges record
\* what the call did: the names it asked for before an alias replaced them,
\* (keys: the zone and the key map of its last lookupDNSKEY call,)
\* the records each alias response supplied, and the exchanges it made with
\* nameservers for its question and in all.
NewFrame(q, authority) ==
    [q |-> q, i |-> 0, authority |-> authority, parentDSSet |-> <<>>,
     aliases |-> {}, chased |-> <<>>, ll |-> <<>>, llValid |-> FALSE,
     pc |-> "query", r |-> NoMsg, z |-> Empty, ret |-> NoRet,
     asked |-> {}, hops |-> <<>>, questions |-> 0, exchanges |-> 0,
     keys |-> NoKeys]

CurLog(f) == f.ll[Len(f.ll)]
WithLog(f, log) == [f EXCEPT !.ll[Len(f.ll)] = log]

\* return answer, ll, err
Return(f, answer, err, via) ==
    [f EXCEPT !.pc = "done",
              !.ret = [answer |-> answer, err |-> err, via |-> via]]

\* log.Error = err.Error(); return nil, ll, err
Fail(f, err) ==
    Return(WithLog(f, [CurLog(f) EXCEPT !.Error = err]), NilAnswer, err, "error")

\* the same with log.DNSSECValid = false and ll.DNSSECValid = false
FailDenial(f, err) ==
    Return([WithLog(f, [CurLog(f) EXCEPT !.Error = err, !.DNSSECValid = FALSE])
               EXCEPT !.llValid = FALSE],
           NilAnswer, err, "error")

extractAnswer(m, authenticated) ==
    Answer(m.Answer, m.Ns, m.Extra, m.Rcode, authenticated)

\* a loop that runs one iteration more
LoopOverLate(i) == i > MaxReferrals
\* for i := 0; i < MaxReferrals; i++
LoopOver(i) == i >= MaxReferrals

\* a loop that ends with an empty answer and no error
LoopExhaustedEmpty(f) ==
    Return(f, Answer(<<>>, <<>>, <<>>, RcodeSuccess, FALSE), NoError, "exhausted")
\* return nil, ll, ErrTooManyReferrals
LoopExhausted(f) == Return(f, NilAnswer, ErrTooManyReferrals, "exhausted")

\* the chased records put behind the answer
appendChased(chased, r) ==
    IF Len(chased) > 0 THEN [r EXCEPT !.Answer = r.Answer \o chased] ELSE r
\* lines 427-430: put aliases at the front of the answer
prependChased(chased, r) ==
    IF Len(chased) > 0 THEN [r EXCEPT !.Answer = chased \o r.Answer] ELSE r

(* query ******************************************************************)

\* a query that never finds its answer in the cache
CacheNeverHit(q) == FALSE
\* rr.cache != nil and rr.cache.Get(q) != nil
CacheHit(q) == rr.cache /\ Get(cache, q) # NilAnswer

\* the message query makes of a cached answer
CachedMsg(answer) ==
    Msg(RcodeSuccess, answer.Answer, answer.Authority, answer.Additional)

\* query(q, authority) answered by the cache
QueryCached(f) ==
    [f EXCEPT !.ll = Append(@, StepLog(TRUE, Get(cache, f.q).Authenticated)),
              !.r = CachedMsg(Get(cache, f.q)),
              !.pc = "validate"]

\* query(q, authority) answered by the nameserver with resp, or failing in
\* ExchangeContext (resp = NoMsg)
QueryExchanged(f, resp) ==
    LET f1 == [f EXCEPT !.ll = Append(@, StepLog(FALSE, FALSE)),
                        !.questions = @ + 1, !.exchanges = @ + 1]
    IN  IF resp = NoMsg THEN Fail(f1, ErrExchange)
        ELSE IF ~bailiwick(resp, f.authority.Zone) THEN Fail(f1, ErrOutOfBailiwick)
        ELSE [f1 EXCEPT !.r = resp, !.pc = "validate"]

(* lookupDNSKEY and checkSignatures ***************************************)

\* lookupDNSKEY without the check of the keys against the parent's DS set
lookupDNSKEYNoDS(r, parentDSSet) ==
    LET keyMap == keyMapOf(r.Answer) IN
    IF Len(r.Answer) = 0 THEN ErrNoDNSKEY
    ELSE IF r.Rcode # RcodeSuccess THEN ErrBadAnswer
    ELSE IF DOMAIN keyMap = {} THEN ErrNoDNSKEY
    ELSE IF Len(parentDSSet) > 0 THEN verifyRRSIG(r, keyMap)
    ELSE NoError

\* lookupDNSKEY once its query has returned r
lookupDNSKEY(r, parentDSSet) ==
    LET keyMap == keyMapOf(r.Answer) IN
    IF Len(r.Answer) = 0 THEN ErrNoDNSKEY
    ELSE IF r.Rcode # RcodeSuccess THEN ErrBadAnswer
    ELSE IF DOMAIN keyMap = {} THEN ErrNoDNSKEY
    ELSE IF Len(parentDSSet) > 0 /\ verifyRRSIG(r, keyMap) # NoError
    THEN verifyRRSIG(r, keyMap)
    ELSE IF Len(parentDSSet) > 0 THEN checkDS(keyMap, parentDSSet)
    ELSE NoError

\* lookupDNSKEY(auth, parentDSSet) with its query: answered by the cache
\* (hit), by the nameserver with kr, or failing (kr = NoMsg); the key map is
\* nil when there is an error
lookupDNSKEYFor(auth, parentDSSet, hit, kr) ==
    IF kr = NoMsg THEN [keyMap |-> NoKeyMap, err |-> ErrExchange]
    ELSE IF ~hit /\ ~bailiwick(kr, auth.Zone)
    THEN [keyMap |-> NoKeyMap, err |-> ErrOutOfBailiwick]
    ELSE IF lookupDNSKEY(kr, parentDSSet) # NoError
    THEN [keyMap |-> NoKeyMap, err |-> lookupDNSKEY(kr, parentDSSet)]
    ELSE [keyMap |-> keyMapOf(kr.Answer), err |-> NoError]

\* checkSignatures(m, auth, parentDSSet) when the DNSKEY query is answered
\* by the cache (hit), by the nameserver with kr, or fails (kr = NoMsg)
checkSignatures(m, auth, parentDSSet, hit, kr) ==
    IF kr = NoMsg THEN ErrExchange
    ELSE IF ~hit /\ ~bailiwick(kr, auth.Zone) THEN ErrOutOfBailiwick
    ELSE IF lookupDNSKEY(kr, parentDSSet) # NoError
    THEN lookupDNSKEY(kr, parentDSSet)
    ELSE verifyRRSIG(m, keyMapOf(kr.Answer))

\* the answer addCache stores for the DNSKEY query
KeyAnswer(kr) == Answer(kr.Answer, kr.Ns, kr.Extra, RcodeSuccess, TRUE)

(* pickAuthority **********************************************************)

\* splitAuthsByZone: nsToZone maps the name of each NS record to its owner
\* (the last record of a name wins); zones maps a zone to the addresses of
\* the additional section that belong to its nameservers
nsToZoneOf(auths) ==
    LET nss == {i \in DOMAIN auths : auths[i].rrtype = TypeNS}
    IN  [n \in {auths[i].ns : i \in nss} |->
            auths[CHOOSE i \in nss :
                     /\ auths[i].ns = n
                     /\ \A j \in nss : auths[j].ns = n => j <= i].name]

zonesOf(auths, extras) ==
    LET m == nsToZoneOf(auths)
        glue == {i \in DOMAIN extras :
                    extras[i].name \in DOMAIN m /\ extras[i].rrtype = TypeA}
    IN  [z \in {m[extras[i].name] : i \in glue} |->
            {extras[i].name : i \in {j \in glue : m[extras[j].name] = z}}]

\* What pickAuthority can return: a nameserver of a zone with an address
\* ("ns"), the nameserver name it passes to lookupNS ("lookup"), or an error.
\* An address is written as the name that owns it.
pickAuthority(auths, extras) ==
    LET m == nsToZoneOf(auths)
        zones == zonesOf(auths, extras)
    IN  IF DOMAIN zones = {} THEN
            IF DOMAIN m = {}
            THEN {[kind |-> "err", err |-> ErrNoNSAuthorties]}
            ELSE {[kind |-> "lookup", ns |-> n, zone |-> m[n]] : n \in DOMAIN m}
        ELSE {[kind |-> "ns", auth |-> Nameserver(n, a, m[n])] :
                 n \in {x \in DOMAIN m : m[x] \in DOMAIN zones},
                 a \in UNION {zones[z] : z \in DOMAIN zones}}

\* lookupNS(name) once its Lookup has returned ret
lookupNS(name, ret) ==
    IF ret.err # NoError THEN [err |-> ret.err]
    ELSE IF ret.answer.Rcode # RcodeSuccess THEN [err |-> ErrAuthorityLookup]
    ELSE IF Len(ret.answer.Answer) = 0 THEN [err |-> ErrNoAuthorityAddress]
    ELSE IF Len(extractRRSet(ret.answer.Answer, name, {TypeA})) = 0
    THEN [err |-> ErrNoAuthorityAddress]
    ELSE [err |-> NoError, auth |-> Nameserver(name, name, Empty)]

(* the body of Lookup's loop after query ***********************************)

\* lines 463-480: the delegation checks and the DS set of the next zone
AfterPick(f, authority) ==
    LET nsecSet == extractRRSet(f.r.Ns, Empty, {TypeNSEC3}) IN
    IF Len(nsecSet) # 0 /\ verifyDelegation(authority.Zone, nsecSet) # NoError
    THEN FailDenial(f, verifyDelegation(authority.Zone, nsecSet))
    ELSE IF Len(nsecSet) = 0 /\ Len(f.parentDSSet) > 0
    THEN Fail(f, ErrUnsignedDelegation)
    ELSE [f EXCEPT !.authority = authority,
                   !.parentDSSet =
                       IF f.i = 0 \/ Len(f.parentDSSet) > 0
                       THEN extractRRSet(f.r.Ns, authority.Zone, {TypeDS})
                       ELSE <<>>,
                   !.i = @ + 1, !.pc = "query"]

\* A step of the loop body is a frame, with the nested Lookup it starts
\* (call) and the `go rr.cache.Add` it starts (add), if any.
Step(f, call, add) == [frame |-> f, call |-> call, add |-> add]
Stay(f) == Step(f, {}, {})

\* lines 405-432: a response with answer records
AnswerStep(f, validated) ==
    LET al == isAlias(f.r.Answer, f.q)
        add == IF ~CurLog(f).CacheHit /\ rr.cache
               THEN {[q |-> f.q,
                      answer |-> Answer(f.r.Answer, f.r.Ns, f.r.Extra, f.r.Rcode,
                                        validated)]}
               ELSE {}
        final == prependChased(f.chased, f.r)
    IN  IF al.diverged THEN Stay([f EXCEPT !.pc = "hung"])
        ELSE IF al.ok /\ al.name \in f.aliases THEN Stay(Fail(f, ErrAliasLoop))
        ELSE IF al.ok
        THEN Stay([f EXCEPT !.aliases = @ \cup {al.name},
                            !.authority = CHOOSE a \in rootNameservers : TRUE,
                            !.q.Name = al.name,
                            !.chased = @ \o al.chased,
                            !.asked = @ \cup {f.q.Name},
                            !.hops = Append(@, al.chased),
                            !.i = @ + 1, !.pc = "query"])
        ELSE IF al.err # NoError THEN Stay(Fail(f, al.err))
        ELSE Step(Return(f, extractAnswer(final, validated), NoError, "answer"),
                  {}, add)

\* lines 452-462: a referral, for each authority pickAuthority can choose
ReferralSteps(f) ==
    LET g == WithLog(f, [CurLog(f) EXCEPT !.Referral = TRUE]) IN
    { IF pick.kind = "err" THEN Stay(Fail(g, pick.err))
      ELSE IF pick.kind = "ns" THEN Stay(AfterPick(g, pick.auth))
      ELSE Step([g EXCEPT !.pc = "awaitNS", !.z = pick.zone],
                {Question(pick.ns, TypeA)}, {})
      : pick \in pickAuthority(f.r.Ns, f.r.Extra) }

\* lines 384-480 with validated known
Classify(f0, validated) ==
    LET f == [WithLog(f0, [CurLog(f0) EXCEPT !.DNSSECValid = validated])
                 EXCEPT !.llValid = validated]
        r == f.r
        nsecSet == extractRRSet(r.Ns, Empty, {TypeNSEC3})
    IN  IF r.Rcode # RcodeSuccess THEN
            IF /\ r.Rcode = RcodeNameError
               /\ Len(nsecSet) # 0
               /\ verifyNameError(f.q, nsecSet) # NoError
            THEN {Stay(FailDenial(f, verifyNameError(f.q, nsecSet)))}
            ELSE {Stay(Return(f, extractAnswer(r, validated), NoError, "rcode"))}
        ELSE IF Len(r.Answer) > 0 THEN {AnswerStep(f, validated)}
        ELSE IF Len(r.Ns) = 0 \/ Len(nsecSet) = Len(r.Ns) THEN
            IF Len(nsecSet) # 0 /\ verifyNODATA(f.q, nsecSet) # NoError
            THEN {Stay(FailDenial(f, verifyNODATA(f.q, nsecSet)))}
            ELSE {Stay(Return(f, Answer(<<>>, <<>>, <<>>, RcodeSuccess, validated),
                              NoError, "nodata"))}
        ELSE ReferralSteps(f)

(***************************************************************************)
(* The nameservers: what an exchange can return.  The root serves ".",     *)
(* delegates "c." to n.c. and may answer for any name; n.c. serves "c.".   *)
(***************************************************************************)
NameH == <<"h", ".", "c", ".">>
NameD == <<"d", ".">>
ZoneKeyTag == 2
\* the tag of a key that is no trust anchor and has no DS record anywhere
RogueKeyTag == 3
KeyTagOf(zone) == IF zone = Root THEN RootKeyTag ELSE ZoneKeyTag
Other(name) == IF name = NameA THEN NameB ELSE NameA

\* a signature by the zone's key that verifies
Sig(name, covered, zone) == RRSIG(name, 1, covered, KeyTagOf(zone), TRUE, TRUE, 0)
\* an NSEC3 record that matches "c." and covers nothing
Denial == NSEC3(NameH, 1, {ZoneC}, {}, {TypeNS}, FALSE)

Answers(q, zone) ==
    { Msg(RcodeSuccess, <<A(q.Name, 1), Sig(q.Name, TypeA, zone)>>, <<>>, <<>>),
      Msg(RcodeSuccess, <<A(q.Name, 1)>>, <<>>, <<>>),
      Msg(RcodeSuccess,
          <<A(q.Name, 1), Sig(q.Name, TypeA, zone), A(NameXC, 1)>>, <<>>, <<>>),
      Msg(RcodeSuccess, <<A(NameD, 1)>>, <<>>, <<>>) }
    \cup (IF zone = Root
          THEN {Msg(RcodeSuccess,
                    <<A(q.Name, 1),
                      RRSIG(q.Name, 1, TypeA, RogueKeyTag, TRUE, TRUE, 0)>>,
                    <<>>, <<>>)}
          ELSE {})

Aliases(q, zone) ==
    { Msg(RcodeSuccess,
          <<CNAME(q.Name, 1, Other(q.Name)), Sig(q.Name, TypeCNAME, zone)>>,
          <<>>, <<>>) }

Denials(q, zone) ==
    { Msg(RcodeNameError, <<>>, <<Denial, Sig(NameH, TypeNSEC3, zone)>>, <<>>),
      Msg(RcodeSuccess, <<>>, <<Denial, Sig(NameH, TypeNSEC3, zone)>>, <<>>),
      Msg(RcodeServerFailure, <<>>, <<>>, <<>>),
      Msg(RcodeNameError, <<>>, <<>>, <<>>),
      Msg(RcodeSuccess, <<>>, <<>>, <<>>) }

Glue == <<A(NameN, 1)>>
SignedDelegation ==
    <<NS(ZoneC, 1, NameN), DS(ZoneC, 1, ZoneKeyTag, "match"),
      Sig(ZoneC, TypeDS, Root)>>
InsecureDelegation ==
    <<NS(ZoneC, 1, NameN), Denial, Sig(NameH, TypeNSEC3, Root)>>

\* the nameserver of "c." delegates the name asked for to itself, with no DS
\* and no NSEC3 record
ChildReferral(q) ==
    Msg(RcodeSuccess, <<>>,
        <<NS(q.Name, 1, NameN), Sig(q.Name, TypeNS, ZoneC)>>, Glue)

\* the nameserver of "c." delegates the name asked for as a signed zone: NS
\* records, the DS record of the child and its signature, no NSEC3 record
SignedChildReferral(q) ==
    Msg(RcodeSuccess, <<>>,
        <<NS(q.Name, 1, NameN), DS(q.Name, 1, ZoneKeyTag, "match"),
          Sig(q.Name, TypeDS, ZoneC)>>, Glue)

GluelessReferral == Msg(RcodeSuccess, <<>>, SignedDelegation, <<>>)

Referrals ==
    { Msg(RcodeSuccess, <<>>, SignedDelegation, Glue),
      Msg(RcodeSuccess, <<>>, InsecureDelegation, Glue),
      GluelessReferral }

Keys(zone) ==
    { Msg(RcodeSuccess,
          <<DNSKEY(zone, 1, KeyTagOf(zone), 257), Sig(zone, TypeDNSKEY, zone)>>,
          <<>>, <<>>),
      Msg(RcodeSuccess, <<DNSKEY(zone, 1, KeyTagOf(zone), 257)>>, <<>>, <<>>),
      Msg(RcodeSuccess, <<>>, <<>>, <<>>) }
    \cup (IF zone = Root
          THEN {Msg(RcodeSuccess,
                    <<DNSKEY(zone, 1, RogueKeyTag, 257),
                      RRSIG(zone, 1, TypeDNSKEY, RogueKeyTag, TRUE, TRUE, 0)>>,
                    <<>>, <<>>)}
          ELSE {})

\* what the nameserver of a zone can send back for q to a Lookup at the
\* given depth of nesting
Responses(q, zone, depth) ==
    IF q.Type = TypeDNSKEY THEN Keys(zone)
    ELSE IF q.Name = NameN
    THEN {Msg(RcodeSuccess, <<A(NameN, 1), Sig(NameN, TypeA, zone)>>, <<>>, <<>>)}
         \cup (IF zone = Root /\ depth < MaxDepth THEN {GluelessReferral} ELSE {})
    ELSE Answers(q, zone) \cup Aliases(q, zone) \cup Denials(q, zone)
         \cup (IF zone = Root
               THEN {m \in Referrals : m = GluelessReferral => depth < MaxDepth}
               ELSE IF zone = ZoneC
               THEN {ChildReferral(q), SignedChildReferral(q)} ELSE {})

\* ExchangeContext: a response, or an error; only an error once ctx is done
Exchange(q, auth, depth) ==
    IF ctxDone THEN {NoMsg} ELSE Responses(q, auth.Zone, depth) \cup {NoMsg}

(***************************************************************************)
(* The Lookup specification.                                               *)
(***************************************************************************)
TopQuestions == {Question(NameA, TypeA), Question(NameB, TypeA), RootKeyQuestion}

Top == stack[Len(stack)]
SetTop(f) == [stack EXCEPT ![Len(stack)] = f]
RootAuthority == CHOOSE a \in rootNameservers : TRUE

Init ==
    /\ rr \in {[cache |-> TRUE], [cache |-> FALSE]}
    /\ cache = IF rr.cache THEN NewResolverCache ELSE EmptyCache
    /\ now = 0
    /\ sweep = SweepIdle
    /\ kept = {}
    /\ hist = NoHistory
    /\ stack = <<>>
    /\ outcome = NoOutcome
    /\ pending = {}
    /\ ctxDone = FALSE
    /\ calls = 0
    /\ FnIdle
    /\ ConcIdle

\* a caller calls rr.Lookup(ctx, q), once the goroutines that the call before
\* left behind have run
StartLookup ==
    /\ stack = <<>>
    /\ calls < MaxLookups
    /\ pending = {}
    /\ \E q \in TopQuestions : stack' = <<NewFrame(q, RootAuthority)>>
    /\ outcome' = NoOutcome
    /\ ctxDone' = FALSE
    /\ calls' = calls + 1
    /\ UNCHANGED <<cache, now, sweep, kept, hist, pending, rr, fnIn, fnOut, conc>>

\* the caller cancels ctx
Cancel ==
    /\ stack # <<>>
    /\ ~ctxDone
    /\ ctxDone' = TRUE
    /\ UNCHANGED <<cache, now, sweep, kept, hist, stack, outcome, pending, rr, calls, fnIn, fnOut, conc>>

\* r, log, err := rr.query(ctx, &q, authority) at the head of an iteration
Query ==
    /\ stack # <<>>
    /\ Top.pc = "query"
    /\ ~LoopOver(Top.i)
    /\ IF CacheHit(Top.q)
       THEN stack' = SetTop(QueryCached(Top))
       ELSE \E resp \in Exchange(Top.q, Top.authority, Len(stack)) :
                stack' = SetTop(QueryExchanged(Top, resp))
    /\ UNCHANGED <<cache, now, sweep, kept, hist, outcome, pending, rr, ctxDone, calls, fnIn, fnOut, conc>>

\* the loop ends: return nil, ll, ErrTooManyReferrals
LoopEnd ==
    /\ stack # <<>>
    /\ Top.pc = "query"
    /\ LoopOver(Top.i)
    /\ stack' = SetTop(LoopExhausted(Top))
    /\ UNCHANGED <<cache, now, sweep, kept, hist, outcome, pending, rr, ctxDone, calls, fnIn, fnOut, conc>>

\* the effect of a step of the loop body on the stack and the pending Adds
Apply(step) ==
    /\ stack' = IF step.call = {} THEN SetTop(step.frame)
                ELSE Append(SetTop(step.frame),
                            NewFrame(CHOOSE q \in step.call : TRUE, RootAuthority))
    /\ pending' = pending \cup step.add

\* the rest of an iteration when no signatures are checked
Proceed ==
    /\ stack # <<>>
    /\ Top.pc = "validate"
    /\ ~((Top.i = 0 \/ Len(Top.parentDSSet) > 0) /\ ~CurLog(Top).CacheHit)
    /\ \E step \in Classify(Top, CurLog(Top).CacheHit /\ CurLog(Top).DNSSECValid) :
           Apply(step)
    /\ UNCHANGED <<cache, now, sweep, kept, hist, outcome, rr, ctxDone, calls, fnIn, fnOut, conc>>

\* the DNSKEY query of checkSignatures: its question, and what it returns
KeyQuestion(f) == Question(f.authority.Zone, TypeDNSKEY)
KeyExchange(f, depth) ==
    IF CacheHit(KeyQuestion(f))
    THEN {[hit |-> TRUE, kr |-> CachedMsg(Get(cache, KeyQuestion(f)))]}
    ELSE {[hit |-> FALSE, kr |-> kr] : kr \in Exchange(KeyQuestion(f), f.authority, depth)}

\* the rest of an iteration when checkSignatures runs
Validate ==
    /\ stack # <<>>
    /\ Top.pc = "validate"
    /\ (Top.i = 0 \/ Len(Top.parentDSSet) > 0) /\ ~CurLog(Top).CacheHit
    /\ \E k \in KeyExchange(Top, Len(stack)) :
        LET km == lookupDNSKEYFor(Top.authority, Top.parentDSSet, k.hit, k.kr)
            f0 == [Top EXCEPT !.keys = [zone |-> Top.authority.Zone,
                                        keyMap |-> km.keyMap]]
            f == IF k.hit THEN f0 ELSE [f0 EXCEPT !.exchanges = @ + 1]
            err == checkSignatures(f.r, f.authority, f.parentDSSet, k.hit, k.kr)
        IN  IF err # NoError
            THEN /\ stack' = SetTop(Fail(f, err))
                 /\ UNCHANGED <<cache, pending>>
            ELSE /\ cache' = IF ~k.hit /\ rr.cache
                             THEN Add(cache, KeyQuestion(f), KeyAnswer(k.kr), FALSE, now)
                             ELSE cache
                 /\ \E step \in Classify(f, TRUE) : Apply(step)
    /\ UNCHANGED <<now, sweep, kept, hist, outcome, rr, ctxDone, calls, fnIn, fnOut, conc>>

\* the nested Lookup of lookupNS returns into pickAuthority and Lookup
ReturnNS ==
    /\ Len(stack) > 1
    /\ Top.pc = "done"
    /\ LET parent == stack[Len(stack) - 1]
           res == lookupNS(Top.q.Name, Top.ret)
           below == SubSeq(stack, 1, Len(stack) - 2)
       IN  stack' = Append(below,
                IF res.err # NoError THEN Fail(parent, res.err)
                ELSE AfterPick(parent, [res.auth EXCEPT !.Zone = parent.z]))
    /\ UNCHANGED <<cache, now, sweep, kept, hist, outcome, pending, rr, ctxDone, calls, fnIn, fnOut, conc>>

\* Lookup returns to its caller
Finish ==
    /\ Len(stack) = 1
    /\ Top.pc = "done"
    /\ outcome' = [done |-> TRUE, frame |-> Top]
    /\ stack' = <<>>
    /\ UNCHANGED <<cache, now, sweep, kept, hist, pending, rr, ctxDone, calls, fnIn, fnOut, conc>>

\* a goroutine started by `go rr.cache.Add(...)` runs
RunPendingAdd ==
    /\ \E p \in pending :
        /\ cache' = Add(cache, p.q, p.answer, FALSE, now)
        /\ pending' = pending \ {p}
    /\ UNCHANGED <<now, sweep, kept, hist, stack, outcome, rr, ctxDone, calls, fnIn, fnOut, conc>>

Next ==
    \/ StartLookup
    \/ Cancel
    \/ Query
    \/ LoopEnd
    \/ Proceed
    \/ Validate
    \/ ReturnNS
    \/ Finish
    \/ RunPendingAdd

Spec == Init /\ [][Next]_vars

(***************************************************************************)
(* SpecCache: BasicCache under Add, the clock and the sweeper.             *)
(***************************************************************************)
CacheQuestions == {Question(NameA, TypeA), Question(NameB, TypeA)}
CacheAnswers ==
    {Answer(<<A(NameA, t)>>, <<>>, <<>>, RcodeSuccess, FALSE) : t \in 0..MaxTTL}

InitCache == CacheIdle /\ LookupIdle /\ FnIdle /\ ConcIdle

\* bc.Add(q, answer, forever), which holds bc.mu from its test to its return
CacheAdd ==
    \E q \in CacheQuestions, a \in CacheAnswers, forever \in BOOLEAN :
        /\ cache' = Add(cache, q, a, forever, now)
        /\ kept' = IF forever THEN kept \cup {hashQuestion(q)} ELSE kept
        /\ hist' = Added(hist, q, a, forever, now)
        /\ UNCHANGED <<now, sweep, lookupVars, fnVars, conc>>

\* the clock advances
Tick ==
    /\ now < MaxClock
    /\ now' = now + 1
    /\ UNCHANGED <<cache, sweep, kept, hist, lookupVars, fnVars, conc>>

\* fullPrune, first part: the scan under the read lock
PruneScan ==
    /\ sweep.pc = "idle"
    /\ sweep' = IF expiredIds(cache, now) = {} THEN SweepIdle
                ELSE [pc |-> "del", ids |-> expiredIds(cache, now)]
    /\ hist' = IF expiredIds(cache, now) = {}
               THEN [hist EXCEPT !.scanAt = now, !.swept = now]
               ELSE [hist EXCEPT !.scanAt = now]
    /\ UNCHANGED <<cache, now, kept, lookupVars, fnVars, conc>>

\* fullPrune, second part: one bc.del(id) of the ids collected
PruneDel ==
    /\ sweep.pc = "del"
    /\ \E id \in sweep.ids :
        /\ cache' = del(cache, id)
        /\ sweep' = IF sweep.ids = {id} THEN SweepIdle
                    ELSE [pc |-> "del", ids |-> sweep.ids \ {id}]
        /\ hist' = IF sweep.ids = {id} THEN [hist EXCEPT !.swept = hist.scanAt]
                   ELSE hist
    /\ UNCHANGED <<now, kept, lookupVars, fnVars, conc>>

NextCache == CacheAdd \/ Tick \/ PruneScan \/ PruneDel

SpecCache == InitCache /\ [][NextCache]_vars

(***************************************************************************)
(* SpecAlias: isAlias applied to an answer section.                        *)
(***************************************************************************)
AliasNames == {NameA, NameB, NameN}
AliasPool ==
    {CNAME(o, 1, t) : o \in AliasNames, t \in AliasNames}
    \cup {A(NameA, 1), DNAME(ZoneC, 1, Root),
          RRSIG(NameA, 1, TypeCNAME, 1, TRUE, TRUE, 0)}
AliasQuestions == {Question(NameA, TypeA), Question(NameA, TypeCNAME)}

\* a name of n characters: labels of 63 characters, each followed by a dot
LongName(n) == [i \in 1..n |-> IF i % 64 = 0 \/ i = n THEN "." ELSE "x"]
MaxTargetLen == 255
\* targets that bring the substituted name to the length limit and past it
LongTargets == {LongName(n) : n \in (maxDomainLength - 3)..MaxTargetLen}
DnameOwners == {Root, ZoneC, NameA}
DnamePool ==
    {DNAME(o, 1, t) : o \in DnameOwners, t \in {NameD} \cup LongTargets}
    \cup {RRSIG(ZoneC, 1, TypeDNAME, 1, TRUE, TRUE, 0)}
DnameQuestions ==
    {Question(NameA, TypeA), Question(NameA, TypeDNAME), Question(NameXC, TypeA)}

InitAlias ==
    /\ CacheIdle /\ LookupIdle /\ ConcIdle
    /\ fnIn \in {[q |-> q, answer |-> a] :
                    q \in AliasQuestions, a \in SeqsUpTo(AliasPool, MaxAnswerLen)}
               \cup {[q |-> q, answer |-> a] :
                    q \in DnameQuestions, a \in SeqsUpTo(DnamePool, MaxSectionLen)}
    /\ fnOut = NotCalled

CallIsAlias ==
    /\ fnOut = NotCalled
    /\ fnOut' = Returned(isAlias(fnIn.answer, fnIn.q))
    /\ UNCHANGED <<fnIn, conc, cacheVars, lookupVars>>

NextAlias == CallIsAlias

SpecAlias == InitAlias /\ [][NextAlias]_vars

(***************************************************************************)
(* SpecTTL: minTTL applied to a record set at a clock time.                *)
(***************************************************************************)
\* an expiration so far ahead that the seconds to it, divided once more by
\* 1000000000, are not 0
FarExpiration == 2 * nanosPerSecond
TTLPool ==
    {A(NameA, 1), A(NameA, 2), A(NameA, 5)}
    \cup {RRSIG(NameA, 5, TypeA, 1, TRUE, TRUE, e) : e \in {1, 3, MaxClock + 2}}
    \cup {RRSIG(NameA, 5, TypeA, 1, TRUE, TRUE, FarExpiration)}

InitTTL ==
    /\ CacheIdle /\ LookupIdle /\ ConcIdle
    /\ fnIn \in {[fn |-> "minTTL", a |-> a, n |-> n] :
                    a \in SeqsUpTo(TTLPool, MaxAnswerLen), n \in 0..MaxClock}
    /\ fnOut = NotCalled

CallMinTTL ==
    /\ fnOut = NotCalled
    /\ fnOut' = Returned(minTTL(fnIn.a, fnIn.n))
    /\ UNCHANGED <<fnIn, conc, cacheVars, lookupVars>>

NextTTL == CallMinTTL

SpecTTL == InitTTL /\ [][NextTTL]_vars

(***************************************************************************)
(* SpecDenial: the NSEC3 denial checks applied to a set of NSEC3 records.  *)
(* The zone is c.; the name asked about, and the delegated name, is a.c.,  *)
(* whose closest encloser is then c., next closer a.c. and wildcard *.c.   *)
(***************************************************************************)
DenialRecord(matches, covers, types, optOut) ==
    NSEC3(ZoneC, 1, matches, covers, types, optOut)
DenialPool ==
    {DenialRecord({ZoneC}, {}, {TypeNS, TypeSOA}, FALSE)}
    \cup {DenialRecord({}, {NameA}, {TypeA}, o) : o \in BOOLEAN}
    \cup {DenialRecord({}, {Wildcard(ZoneC)}, {TypeA}, FALSE)}
    \cup {DenialRecord({NameA}, {}, t, FALSE) :
            t \in {{}, {TypeNS}, {TypeNS, TypeDS}, {TypeA}}}
DenialQuestions ==
    {Question(NameA, TypeA), Question(NameA, TypeDS), Question(Wildcard(ZoneC), TypeA)}

\* records that match one name each: the root, c., a.c. and b.c.
EncloserPool ==
    {DenialRecord({n}, {}, {TypeNS}, FALSE) : n \in {Root, ZoneC, NameA, NameB}}

InitDenial ==
    /\ CacheIdle /\ LookupIdle /\ ConcIdle
    /\ fnIn \in
         {[fn |-> "verifyNameError", q |-> Question(NameA, TypeA), nsec |-> s] :
             s \in SeqsUpTo(DenialPool, MaxAnswerLen)}
         \cup {[fn |-> "verifyNODATA", q |-> q, nsec |-> s] :
             q \in DenialQuestions, s \in SeqsUpTo(DenialPool, MaxAnswerLen)}
         \cup {[fn |-> "verifyDelegation", delegation |-> NameA, nsec |-> s] :
             s \in SeqsUpTo(DenialPool, MaxAnswerLen)}
         \cup {[fn |-> f, name |-> NameA, nsec |-> s] :
             f \in {"findMatching", "findCoverer"},
             s \in SeqsUpTo(DenialPool, MaxAnswerLen)}
         \cup {[fn |-> "findClosestEncloser", name |-> n, nsec |-> s] :
             n \in {NameA, ZoneC, Root}, s \in SeqsUpTo(EncloserPool, MaxAnswerLen)}
    /\ fnOut = NotCalled

CallVerifyNameError ==
    /\ fnOut = NotCalled /\ fnIn.fn = "verifyNameError"
    /\ fnOut' = Returned(verifyNameError(fnIn.q, fnIn.nsec))
    /\ UNCHANGED <<fnIn, conc, cacheVars, lookupVars>>

CallVerifyNODATA ==
    /\ fnOut = NotCalled /\ fnIn.fn = "verifyNODATA"
    /\ fnOut' = Returned(verifyNODATA(fnIn.q, fnIn.nsec))
    /\ UNCHANGED <<fnIn, conc, cacheVars, lookupVars>>

CallVerifyDelegation ==
    /\ fnOut = NotCalled /\ fnIn.fn = "verifyDelegation"
    /\ fnOut' = Returned(verifyDelegation(fnIn.delegation, fnIn.nsec))
    /\ UNCHANGED <<fnIn, conc, cacheVars, lookupVars>>

CallFindMatching ==
    /\ fnOut = NotCalled /\ fnIn.fn = "findMatching"
    /\ fnOut' = Returned(findMatching(fnIn.name, fnIn.nsec))
    /\ UNCHANGED <<fnIn, conc, cacheVars, lookupVars>>

CallFindCoverer ==
    /\ fnOut = NotCalled /\ fnIn.fn = "findCoverer"
    /\ fnOut' = Returned(findCoverer(fnIn.name, fnIn.nsec))
    /\ UNCHANGED <<fnIn, conc, cacheVars, lookupVars>>

CallFindClosestEncloser ==
    /\ fnOut = NotCalled /\ fnIn.fn = "findClosestEncloser"
    /\ fnOut' = Returned(findClosestEncloser(fnIn.name, fnIn.nsec))
    /\ UNCHANGED <<fnIn, conc, cacheVars, lookupVars>>

NextDenial ==
    \/ CallVerifyNameError \/ CallVerifyNODATA \/ CallVerifyDelegation
    \/ CallFindMatching \/ CallFindCoverer \/ CallFindClosestEncloser

SpecDenial == InitDenial /\ [][NextDenial]_vars

(***************************************************************************)
(* SpecLocks: goroutines calling Get and Add while the sweeper goroutine   *)
(* runs fullPrune, one step per lock operation.  A goroutine's pc names    *)
(* the function it is in and the lock operation it is about to make.       *)
(***************************************************************************)
Th(t) == conc.th[t]
\* the cacheEntry object a new entry gets: one that is neither in the map nor
\* pointed to by a goroutine
InUse ==
    {conc.map[id] : id \in DOMAIN conc.map} \cup {Th(t).entry : t \in Threads}
Fresh == CHOOSE e \in Entries \ InUse : \A o \in Entries \ InUse : e <= o
HasFresh == Entries \ InUse # {}

\* Get(q): getEntry takes the read lock ...
CallGet(t) ==
    /\ t \in Clients /\ Th(t).pc = "idle"
    /\ \E id \in Ids :
        conc' = [conc EXCEPT !.th[t] = [Idle EXCEPT !.pc = "getEntry.RLock", !.id = id]]
    /\ UNCHANGED <<cacheVars, lookupVars, fnVars>>

\* bc.mu.RLock(): waits while a writer has called Lock
GetEntryRLock(t) ==
    /\ Th(t).pc = "getEntry.RLock"
    /\ conc.w = NoThread
    /\ conc' = [conc EXCEPT !.readers = @ \cup {t}, !.th[t].pc = "getEntry.RUnlock"]
    /\ UNCHANGED <<cacheVars, lookupVars, fnVars>>

\* ... reads bc.cache[id] and releases the read lock on return; Get returns
\* nil when the key is absent
GetEntryRUnlock(t) ==
    /\ Th(t).pc = "getEntry.RUnlock"
    /\ conc' = [conc EXCEPT
                  !.readers = @ \ {t},
                  !.th[t] = IF Th(t).id \in DOMAIN conc.map
                            THEN [@ EXCEPT !.pc = "Get.Lock",
                                           !.entry = conc.map[Th(t).id]]
                            ELSE Idle]
    /\ UNCHANGED <<cacheVars, lookupVars, fnVars>>

\* entry.mu.Lock() in Get
GetLock(t) ==
    /\ Th(t).pc = "Get.Lock"
    /\ conc.emu[Th(t).entry] = NoThread
    /\ conc' = [conc EXCEPT !.emu[Th(t).entry] = t, !.th[t].pc = "Get.Unlock"]
    /\ UNCHANGED <<cacheVars, lookupVars, fnVars>>

\* the deferred entry.mu.Unlock() as Get returns entry.answer
GetUnlock(t) ==
    /\ Th(t).pc = "Get.Unlock"
    /\ conc' = [conc EXCEPT !.emu[Th(t).entry] = NoThread, !.th[t] = Idle]
    /\ UNCHANGED <<cacheVars, lookupVars, fnVars>>

\* Add(q, answer, forever): stores is whether forever is set or the ttl
\* computed is not 0
CallAdd(t) ==
    /\ t \in Clients /\ Th(t).pc = "idle"
    /\ \E id \in Ids, stores \in BOOLEAN :
        conc' = [conc EXCEPT !.th[t] = [Idle EXCEPT !.pc = "Add.Lock", !.id = id,
                                                    !.stores = stores]]
    /\ UNCHANGED <<cacheVars, lookupVars, fnVars>>

\* the return for ttl == 0, before any lock is taken
AddSkip(t) ==
    /\ Th(t).pc = "Add.Lock" /\ ~Th(t).stores
    /\ conc' = [conc EXCEPT !.th[t] = Idle]
    /\ UNCHANGED <<cacheVars, lookupVars, fnVars>>

\* bc.mu.Lock() in Add: the writer enters, which keeps new readers out ...
AddLock(t) ==
    /\ Th(t).pc = "Add.Lock" /\ Th(t).stores
    /\ conc.w = NoThread
    /\ conc' = [conc EXCEPT !.w = t, !.th[t].pc = "Add.Locked"]
    /\ UNCHANGED <<cacheVars, lookupVars, fnVars>>

\* ... and holds the lock once the readers have left; a key that is present
\* is updated, an absent one gets a new cacheEntry
AddLocked(t) ==
    /\ Th(t).pc = "Add.Locked"
    /\ conc.readers = {}
    /\ IF Th(t).id \in DOMAIN conc.map
       THEN conc' = [conc EXCEPT !.th[t].pc = "update.Lock",
                                 !.th[t].entry = conc.map[Th(t).id]]
       ELSE /\ HasFresh
            /\ conc' = [conc EXCEPT
                          !.map = [id \in DOMAIN conc.map \cup {Th(t).id} |->
                                     IF id = Th(t).id THEN Fresh ELSE conc.map[id]],
                          !.th[t].pc = "Add.Unlock"]
    /\ UNCHANGED <<cacheVars, lookupVars, fnVars>>

\* ce.mu.Lock() in update
UpdateLock(t) ==
    /\ Th(t).pc = "update.Lock"
    /\ conc.emu[Th(t).entry] = NoThread
    /\ conc' = [conc EXCEPT !.emu[Th(t).entry] = t, !.th[t].pc = "update.Unlock"]
    /\ UNCHANGED <<cacheVars, lookupVars, fnVars>>

\* the deferred ce.mu.Unlock() of update
UpdateUnlock(t) ==
    /\ Th(t).pc = "update.Unlock"
    /\ conc' = [conc EXCEPT !.emu[Th(t).entry] = NoThread,
                            !.th[t].pc = "Add.Unlock", !.th[t].entry = NoEntry]
    /\ UNCHANGED <<cacheVars, lookupVars, fnVars>>

\* the deferred bc.mu.Unlock() of Add
AddUnlock(t) ==
    /\ Th(t).pc = "Add.Unlock"
    /\ conc' = [conc EXCEPT !.w = NoThread, !.th[t] = Idle]
    /\ UNCHANGED <<cacheVars, lookupVars, fnVars>>

\* the ticker of NewBasicCache fires: bc.fullPrune()
CallFullPrune(t) ==
    /\ t = Sweeper /\ Th(t).pc = "idle"
    /\ conc' = [conc EXCEPT !.th[t].pc = "fullPrune.RLock"]
    /\ UNCHANGED <<cacheVars, lookupVars, fnVars>>

\* bc.mu.RLock() in fullPrune, and the start of the range over bc.cache
FullPruneRLock(t) ==
    /\ Th(t).pc = "fullPrune.RLock"
    /\ conc.w = NoThread
    /\ conc' = [conc EXCEPT !.readers = @ \cup {t}, !.th[t].pc = "fullPrune.range",
                            !.th[t].todo = DOMAIN conc.map]
    /\ UNCHANGED <<cacheVars, lookupVars, fnVars>>

\* ce.mu.Lock() in expired, for the next entry of the range (in any order)
ExpiredLock(t) ==
    /\ Th(t).pc = "fullPrune.range"
    /\ \E id \in Th(t).todo :
        /\ conc.emu[conc.map[id]] = NoThread
        /\ conc' = [conc EXCEPT !.emu[conc.map[id]] = t,
                                !.th[t].pc = "expired.Unlock",
                                !.th[t].id = id, !.th[t].entry = conc.map[id]]
    /\ UNCHANGED <<cacheVars, lookupVars, fnVars>>

\* the deferred ce.mu.Unlock() of expired; an expired entry's id is collected
ExpiredUnlock(t) ==
    /\ Th(t).pc = "expired.Unlock"
    /\ \E isExpired \in BOOLEAN :
        conc' = [conc EXCEPT
                   !.emu[Th(t).entry] = NoThread,
                   !.th[t] = [@ EXCEPT !.pc = "fullPrune.range", !.id = <<>>,
                                       !.entry = NoEntry,
                                       !.todo = @ \ {Th(t).id},
                                       !.ids = IF isExpired THEN Append(@, Th(t).id)
                                               ELSE @]]
    /\ UNCHANGED <<cacheVars, lookupVars, fnVars>>

\* bc.mu.RUnlock() without the release of the read lock
FullPruneKeepRLock(t) ==
    /\ Th(t).pc = "fullPrune.range" /\ Th(t).todo = {}
    /\ conc' = [conc EXCEPT
                  !.th[t] = IF Th(t).ids = <<>> THEN Idle
                            ELSE [@ EXCEPT !.pc = "del.Lock"]]
    /\ UNCHANGED <<cacheVars, lookupVars, fnVars>>

\* bc.mu.RUnlock() after the range; fullPrune returns when nothing expired
FullPruneRUnlock(t) ==
    /\ Th(t).pc = "fullPrune.range" /\ Th(t).todo = {}
    /\ conc' = [conc EXCEPT
                  !.readers = @ \ {t},
                  !.th[t] = IF Th(t).ids = <<>> THEN Idle
                            ELSE [@ EXCEPT !.pc = "del.Lock"]]
    /\ UNCHANGED <<cacheVars, lookupVars, fnVars>>

\* bc.mu.Lock() in del, for the first id still to delete
DelLock(t) ==
    /\ Th(t).pc = "del.Lock"
    /\ conc.w = NoThread
    /\ conc' = [conc EXCEPT !.w = t, !.th[t].pc = "del.Locked"]
    /\ UNCHANGED <<cacheVars, lookupVars, fnVars>>

\* delete(bc.cache, id) once the readers have left
DelLocked(t) ==
    /\ Th(t).pc = "del.Locked"
    /\ conc.readers = {}
    /\ conc' = [conc EXCEPT
                  !.map = [id \in DOMAIN conc.map \ {Head(Th(t).ids)} |-> conc.map[id]],
                  !.th[t].pc = "del.Unlock"]
    /\ UNCHANGED <<cacheVars, lookupVars, fnVars>>

\* the deferred bc.mu.Unlock() of del; fullPrune goes on to the next id
DelUnlock(t) ==
    /\ Th(t).pc = "del.Unlock"
    /\ conc' = [conc EXCEPT
                  !.w = NoThread,
                  !.th[t] = IF Len(Th(t).ids) = 1 THEN Idle
                            ELSE [@ EXCEPT !.pc = "del.Lock", !.ids = Tail(@)]]
    /\ UNCHANGED <<cacheVars, lookupVars, fnVars>>

\* a step inside a call that is under way
Progress(t) ==
    \/ GetEntryRLock(t) \/ GetEntryRUnlock(t) \/ GetLock(t) \/ GetUnlock(t)
    \/ AddSkip(t) \/ AddLock(t) \/ AddLocked(t)
    \/ UpdateLock(t) \/ UpdateUnlock(t) \/ AddUnlock(t)
    \/ FullPruneRLock(t) \/ ExpiredLock(t) \/ ExpiredUnlock(t) \/ FullPruneRUnlock(t)
    \/ DelLock(t) \/ DelLocked(t) \/ DelUnlock(t)

InitLocks == CacheIdle /\ LookupIdle /\ FnIdle /\ ConcIdle

NextLocks ==
    \E t \in Threads : CallGet(t) \/ CallAdd(t) \/ CallFullPrune(t) \/ Progress(t)

\* the Go scheduler runs every goroutine that can run, and a goroutine that
\* waits for a sync.Mutex or sync.RWMutex is handed it in the end (the
\* mutex's starvation mode, the RWMutex's writer and reader queues)
SpecLocks ==
    InitLocks /\ [][NextLocks]_vars /\ \A t \in Threads : SF_vars(Progress(t))

(***************************************************************************)
(* SpecSig: verifyRRSIG, checkDS and lookupDNSKEY applied to responses,    *)
(* key maps and DS sets.  Key tag 1 is the key of "c."; no key has tag 3.  *)
(***************************************************************************)
SigKey == DNSKEY(ZoneC, 1, 1, 257)
SigKeyMaps ==
    {keyMapOf(<<>>), keyMapOf(<<SigKey>>),
     keyMapOf(<<SigKey, DNSKEY(ZoneC, 1, 2, 256)>>)}
\* a record, a signature over it that is good, and signatures that fail one
\* check each
SigPool ==
    {A(NameA, 1),
     RRSIG(NameA, 1, TypeA, 1, TRUE, TRUE, 0),
     RRSIG(NameA, 1, TypeA, 1, FALSE, TRUE, 0),
     RRSIG(NameA, 1, TypeA, 1, TRUE, FALSE, 0),
     RRSIG(NameA, 1, TypeA, 3, TRUE, TRUE, 0),
     RRSIG(NameB, 1, TypeA, 1, TRUE, TRUE, 0)}
DSPool ==
    {DS(ZoneC, 1, tag, d) : tag \in {1, 2, 3}, d \in {"match", "differ", "refused"}}
\* the records of a DNSKEY response: keys of "c." (two of them with the same
\* tag), a key that is neither a ZSK nor a KSK, a key of the root, and a good
\* and a bad signature over the keys
KeyPool ==
    {SigKey, DNSKEY(ZoneC, 1, 1, 256), DNSKEY(ZoneC, 1, 2, 0),
     DNSKEY(Root, 1, 1, 257),
     RRSIG(ZoneC, 1, TypeDNSKEY, 1, TRUE, TRUE, 0),
     RRSIG(ZoneC, 1, TypeDNSKEY, 1, FALSE, TRUE, 0)}
KeyResponses ==
    {Msg(rcode, answer, <<>>, <<>>) :
        rcode \in {RcodeSuccess, RcodeServerFailure},
        answer \in SeqsUpTo(KeyPool, MaxSectionLen)}
\* what the cache holds under (zone, DNSKEY): an answer section that came in
\* an exchange with a nameserver of the zone
KeyCached(zone) ==
    {m \in KeyResponses :
        m.Rcode = RcodeSuccess /\ Len(m.Answer) > 0 /\ bailiwick(m, zone)}

InitSig ==
    /\ CacheIdle /\ LookupIdle /\ ConcIdle
    /\ fnIn \in
         {[fn |-> "verifyRRSIG", msg |-> Msg(RcodeSuccess, a, n, <<>>), keyMap |-> k] :
             a \in SeqsUpTo(SigPool, MaxSectionLen),
             n \in SeqsUpTo(SigPool, MaxSectionLen), k \in SigKeyMaps}
         \cup {[fn |-> "checkDS", keyMap |-> k, dsSet |-> d] :
             k \in SigKeyMaps, d \in SeqsUpTo(DSPool, MaxSectionLen)}
         \cup {[fn |-> "lookupDNSKEY", auth |-> Nameserver(NameN, NameN, ZoneC),
                parentDSSet |-> d, hit |-> h, kr |-> kr] :
             d \in SeqsUpTo({DS(ZoneC, 1, 1, "match"), DS(ZoneC, 1, 1, "differ"),
                             DS(ZoneC, 1, 3, "match")}, 1),
             h \in BOOLEAN, kr \in KeyResponses \cup {NoMsg}}
    /\ fnIn.fn = "lookupDNSKEY" /\ fnIn.hit => fnIn.kr \in KeyCached(ZoneC)
    /\ fnOut = NotCalled

CallVerifyRRSIG ==
    /\ fnOut = NotCalled /\ fnIn.fn = "verifyRRSIG"
    /\ fnOut' = Returned(verifyRRSIG(fnIn.msg, fnIn.keyMap))
    /\ UNCHANGED <<fnIn, conc, cacheVars, lookupVars>>

CallCheckDS ==
    /\ fnOut = NotCalled /\ fnIn.fn = "checkDS"
    /\ fnOut' = Returned(checkDS(fnIn.keyMap, fnIn.dsSet))
    /\ UNCHANGED <<fnIn, conc, cacheVars, lookupVars>>

CallLookupDNSKEY ==
    /\ fnOut = NotCalled /\ fnIn.fn = "lookupDNSKEY"
    /\ fnOut' = Returned(lookupDNSKEYFor(fnIn.auth, fnIn.parentDSSet, fnIn.hit, fnIn.kr))
    /\ UNCHANGED <<fnIn, conc, cacheVars, lookupVars>>

NextSig == CallVerifyRRSIG \/ CallCheckDS \/ CallLookupDNSKEY

SpecSig == InitSig /\ [][NextSig]_vars

(***************************************************************************)
(* The claims.                                                             *)
(***************************************************************************)
Range(s) == {s[i] : i \in DOMAIN s}

\* the Lookup calls under way and the one that returned last
Frames ==
    Range(stack) \cup (IF outcome.done THEN {outcome.frame} ELSE {})
\* the Lookup calls that returned an Answer
Answered(f) == f.pc = "done" /\ f.ret.err = NoError
\* the Lookup calls that returned the records of a final response
Final(f) == f.pc = "done" /\ f.ret.via = "answer"

RECURSIVE Flatten(_)
Flatten(ss) == IF ss = <<>> THEN <<>> ELSE Head(ss) \o Flatten(Tail(ss))

\* name is the zone or a descendant of it at a label boundary
LabelAligned(name, zone) ==
    \/ name = zone
    \/ zone = Root /\ HasSuffix(name, Root)
    \/ HasSuffix(name, <<".">> \o zone)

\* C1: when Lookup returns an Answer with Authenticated = true, every
\* iteration of that Lookup (each referral followed, each alias chased, the
\* final response) passed checkSignatures or was a cache hit on an entry
\* stored with Authenticated = true.
C1_AuthenticatedChain ==
    \A f \in Frames :
        Answered(f) /\ f.ret.answer.Authenticated =>
            \A k \in DOMAIN f.ll : f.ll[k].DNSSECValid

\* C2: when Lookup returns Authenticated = true with the non-empty answer of
\* an upstream response, every record of that response's answer section that
\* is not an RRSIG has an RRSIG of the section with its owner and type that
\* verifies within its validity period.
C2_AnswerCovered ==
    \A f \in Frames :
        Final(f) /\ f.ret.answer.Authenticated /\ ~CurLog(f).CacheHit =>
            \A i \in DOMAIN f.r.Answer :
                f.r.Answer[i].rrtype # TypeRRSIG =>
                    \E j \in DOMAIN f.r.Answer :
                        /\ f.r.Answer[j].rrtype = TypeRRSIG
                        /\ f.r.Answer[j].name = f.r.Answer[i].name
                        /\ f.r.Answer[j].TypeCovered = f.r.Answer[i].rrtype
                        /\ f.r.Answer[j].verifies
                        /\ f.r.Answer[j].inPeriod

\* C3: a Lookup run with MaxReferrals = k issues at most k upstream
\* exchanges, its question queries and DNSKEY queries together.
C3_ExchangesAtMostK ==
    \A f \in Frames : f.exchanges <= MaxReferrals

\* C3, amended: a Lookup run with MaxReferrals = k issues at most k question
\* queries and at most one DNSKEY query for each of them, at most 2k upstream
\* exchanges in all.
C3_ExchangesAtMostTwiceK ==
    \A f \in Frames :
        /\ f.questions <= MaxReferrals
        /\ f.exchanges - f.questions <= f.questions
        /\ f.exchanges <= 2 * MaxReferrals

\* a Lookup that made a question query and a DNSKEY query in each of its
\* MaxReferrals iterations
C3_Witness ==
    \E f \in Frames :
        f.questions = MaxReferrals /\ f.exchanges = 2 * MaxReferrals

\* C4: no Lookup runs more than MaxReferrals iterations of its loop, and a
\* Lookup whose first MaxReferrals iterations all ended in a referral or an
\* alias chase returns ErrTooManyReferrals with a nil Answer.
C4_LoopBounded ==
    \A f \in Frames :
        /\ f.i <= MaxReferrals
        /\ Len(f.ll) <= MaxReferrals
        /\ f.pc = "done" /\ f.i = MaxReferrals =>
              f.ret.answer = NilAnswer /\ f.ret.err = ErrTooManyReferrals

\* a Lookup that returned after MaxReferrals iterations that all went on
C4_Witness ==
    \E f \in Frames :
        /\ f.pc = "done"
        /\ f.i = MaxReferrals
        /\ Len(f.ll) = MaxReferrals
        /\ f.ret.err = ErrTooManyReferrals

\* C5: the chain of nested calls Lookup -> pickAuthority -> lookupNS ->
\* Lookup is no deeper than a budget derived from MaxReferrals: each nested
\* call uses up one of MaxReferrals units.
C5_DepthWithinBudget == Len(stack) <= MaxReferrals + 1

\* C6: a response that aliases the name asked back to a name this Lookup
\* asked before ends the Lookup with the alias-loop error: no Lookup goes on
\* with a name that an earlier response of it aliased away.
C6_AliasLoopEnds ==
    \A f \in Frames : f.q.Name \notin f.asked

\* C8: the Answer records of a Lookup that returned a final answer after
\* alias chases are the chased records of every chase, first chase first,
\* followed by the answer records of the final response.
C8_ChasedThenAnswer ==
    \A f \in Frames :
        Final(f) /\ f.hops # <<>> =>
            f.ret.answer.Answer = Flatten(f.hops) \o f.r.Answer

\* a final answer after two chases of different records
C8_Witness ==
    \E f \in Frames :
        /\ Final(f)
        /\ Len(f.hops) >= 2
        /\ f.hops[1] # f.hops[2]
        /\ Len(f.r.Answer) > 0

\* C9: a response that query accepted has, in its answer and authority
\* sections, only OPT records and records owned by the authority's zone or
\* by a descendant of it at a label boundary.
C9_AcceptedInBailiwick ==
    \A f \in Frames :
        f.pc = "validate" /\ ~CurLog(f).CacheHit =>
            \A section \in {f.r.Answer, f.r.Ns} : \A i \in DOMAIN section :
                \/ section[i].rrtype = TypeOPT
                \/ LabelAligned(section[i].name, f.authority.Zone)

\* C7: for an answer that, RRSIGs stripped, is two or more CNAMEs, and a
\* question type other than CNAME, isAlias reports an alias whose chased
\* records are the CNAMEs of the answer linked from the question name on
\* (each owned by the target of the one before), in that order, up to a
\* target that owns no CNAME of the answer, which is the canonical name;
\* when no CNAME is owned by the question name, nothing is chased and the
\* canonical name is empty.  (Stated of the calls that return.)
C7_Case ==
    /\ fnOut.called
    /\ LET f == filterRRSet(fnIn.answer, {TypeRRSIG})
       IN  Len(f) >= 2 /\ allOfType(f, TypeCNAME)
    /\ fnIn.q.Type # TypeCNAME
    /\ ~fnOut.res.diverged

C7_CollapseFollowsChain ==
    C7_Case =>
        LET f == filterRRSet(fnIn.answer, {TypeRRSIG})
            owners == {f[i].name : i \in DOMAIN f}
            r == fnOut.res
        IN  /\ r.ok /\ r.err = NoError
            /\ \A i \in DOMAIN r.chased :
                  /\ r.chased[i] \in Range(f)
                  /\ r.chased[i].name =
                        (IF i = 1 THEN fnIn.q.Name ELSE r.chased[i - 1].target)
            /\ IF fnIn.q.Name \notin owners
               THEN r.chased = <<>> /\ r.name = Empty
               ELSE /\ r.chased # <<>>
                    /\ r.name = r.chased[Len(r.chased)].target
                    /\ r.name \notin owners

\* a chain of two CNAMEs given in reverse order, the second of them twice
C7_Witness ==
    /\ C7_Case
    /\ fnIn.answer = <<CNAME(NameB, 1, NameN), CNAME(NameA, 1, NameB),
                       CNAME(NameB, 1, NameN)>>
    /\ fnOut.res.chased = <<CNAME(NameA, 1, NameB), CNAME(NameB, 1, NameN)>>
    /\ fnOut.res.name = NameN

\* C10: once Add(q, answer, forever = true) has returned, the entry of q
\* stays in the cache (Get(q) is never nil), whatever the clock, the sweeps
\* and the Adds made before.
C10_ForeverEntryStays ==
    \A q \in CacheQuestions :
        hashQuestion(q) \in kept => Get(cache, q) # NilAnswer

\* the records of an answer in the order Add hands them to minTTL
AllRecords(a) == a.Answer \o a.Additional \o a.Authority

\* C11: every stored entry whose forever flag is false has ttl >= 1, and an
\* Add with forever = false whose computed ttl is 0 leaves the cache as it is.
C11_StoredTTLPositive ==
    /\ \A id \in DOMAIN cache : ~cache[id].forever => cache[id].ttl >= 1
    /\ \A q \in CacheQuestions, a \in CacheAnswers :
          minTTL(AllRecords(a), now) = 0 => Add(cache, q, a, FALSE, now) = cache

\* the times at which an entry of the model can be looked at
Times == 0..(MaxClock + MaxTTL + 1)

\* C12: an entry added once, with forever = false and ttl t at time T0, is
\* returned by Get at every time before T0 + t, and is gone once a fullPrune
\* that scanned at a time later than T0 + t has returned.
C12_ExpiresBySweep ==
    \A q \in CacheQuestions :
        LET id == hashQuestion(q) IN
        id \in DOMAIN hist.adds /\ hist.adds[id].once
                                /\ ~hist.adds[id].alone.forever =>
            LET e == hist.adds[id].alone IN
            /\ now < e.modified + e.ttl => Get(cache, q) = e.answer
            /\ hist.swept > e.modified + e.ttl => Get(cache, q) = NilAnswer

\* an entry added once at time 0 that a later sweep removed
C12_Witness ==
    \E q \in CacheQuestions :
        LET id == hashQuestion(q) IN
        /\ id \in DOMAIN hist.adds
        /\ hist.adds[id].once
        /\ ~hist.adds[id].alone.forever
        /\ hist.swept > hist.adds[id].alone.modified + hist.adds[id].alone.ttl
        /\ Get(cache, q) = NilAnswer

C14_LastWriterWins ==
    \A id \in DOMAIN cache :
        id \in DOMAIN hist.adds => cache[id] = hist.adds[id].alone

\* the smallest number of a non-empty set of numbers
Least(S) == CHOOSE x \in S : \A y \in S : x <= y

\* C16: the ttl computed for a record set is 0 when the set is empty, and
\* otherwise the least Ttl of its records, lowered to the least remaining
\* validity E (expiration minus clock time, in seconds) that an RRSIG of the
\* set has with 0 < E < that least Ttl.
C16_MinTTLWithExpiry ==
    fnOut.called =>
        LET a == fnIn.a
            ttls == {a[i].ttl : i \in DOMAIN a}
            left == {a[i].Expiration - fnIn.n :
                        i \in {j \in DOMAIN a : a[j].rrtype = TypeRRSIG}}
            sooner == {e \in left : 0 < e /\ e < Least(ttls)}
        IN  fnOut.res = IF a = <<>> THEN 0
                        ELSE IF sooner = {} THEN Least(ttls)
                        ELSE Least(sooner)

\* the records of the set that match, and that cover, a name
Matching(name, nsec) == {k \in DOMAIN nsec : Match(nsec[k], name)}
Covering(name, nsec) == {k \in DOMAIN nsec : Cover(nsec[k], name)}
DenialCalled(fn) == fnOut.called /\ fnIn.fn = fn

\* C17: verifyNameError succeeds only if a closest encloser of the question
\* name is found in the set, exactly one record covers the next closer and
\* exactly one record covers the wildcard of the closest encloser (so it
\* fails on the empty set and whenever one of the two covers is missing).
C17_NameErrorNeedsCovers ==
    DenialCalled("verifyNameError") /\ fnOut.res = NoError =>
        LET e == findClosestEncloser(fnIn.q.Name, fnIn.nsec)
        IN  /\ e.ce # Empty
            /\ Cardinality(Covering(e.nc, fnIn.nsec)) = 1
            /\ Cardinality(Covering(Wildcard(e.ce), fnIn.nsec)) = 1

\* C18: verifyNODATA succeeds when exactly one record matches the question
\* name and its bitmap holds neither the question type nor CNAME; it fails
\* with ErrNSECTypeExists when that record's bitmap holds one of them; with
\* no matching record it fails unless the question type is DS and a closest
\* encloser exists with a record covering the next closer.
C18_NODATAByBitmap ==
    DenialCalled("verifyNODATA") /\ ~HasPrefix(fnIn.q.Name, <<"*", ".">>) =>
        LET q == fnIn.q
            ms == Matching(q.Name, fnIn.nsec)
            e == findClosestEncloser(q.Name, fnIn.nsec)
        IN  /\ Cardinality(ms) = 1 =>
                LET types == fnIn.nsec[CHOOSE k \in ms : TRUE].TypeBitMap
                IN  IF typesSet(types, {q.Type, TypeCNAME})
                    THEN fnOut.res = ErrNSECTypeExists
                    ELSE fnOut.res = NoError
            /\ ms = {} /\ fnOut.res = NoError =>
                /\ q.Type = TypeDS
                /\ e.ce # Empty
                /\ Covering(e.nc, fnIn.nsec) # {}

\* C19: when exactly one record matches the delegated name, verifyDelegation
\* succeeds if and only if that record's bitmap holds NS and neither DS nor
\* SOA; it fails with ErrNSECNSMissing when NS is absent and with
\* ErrNSECBadDelegation when NS is there and DS or SOA is too.
C19_DelegationByBitmap ==
    DenialCalled("verifyDelegation")
    /\ Cardinality(Matching(fnIn.delegation, fnIn.nsec)) = 1 =>
        LET types == fnIn.nsec[CHOOSE k \in Matching(fnIn.delegation, fnIn.nsec) :
                                  TRUE].TypeBitMap
        IN  fnOut.res = IF TypeNS \notin types THEN ErrNSECNSMissing
                        ELSE IF typesSet(types, {TypeDS, TypeSOA})
                        THEN ErrNSECBadDelegation
                        ELSE NoError

\* C20: when no record matches the delegated name, verifyDelegation succeeds
\* only if a closest encloser is found, exactly one record covers the next
\* closer and that record has the opt-out flag set; with no covering record,
\* or with a covering record whose opt-out flag is clear, it fails.
C20_Case ==
    /\ DenialCalled("verifyDelegation")
    /\ Matching(fnIn.delegation, fnIn.nsec) = {}

HoldsRead(t) == t \in conc.readers
HoldsWrite(t) == conc.w = t /\ Th(t).pc \notin {"Add.Locked", "del.Locked"}
WaitsForMap(t) ==
    Th(t).pc \in {"getEntry.RLock", "fullPrune.RLock", "Add.Lock", "del.Lock",
                  "Add.Locked", "del.Locked"}
HoldsEntry(t) == \E e \in Entries : conc.emu[e] = t
InCall(t) == Th(t).pc # "idle"

C15_LockDiscipline ==
    /\ (\E t \in Threads : InCall(t)) => \E t \in Threads : ENABLED Progress(t)
    /\ \A t \in Threads :
        /\ HoldsEntry(t) => ~WaitsForMap(t)
        /\ ~InCall(t) => ~HoldsRead(t) /\ conc.w # t /\ ~HoldsEntry(t)
    /\ Th(Sweeper).pc \in {"fullPrune.range", "expired.Unlock"} =>
        conc.w # Sweeper /\ HoldsRead(Sweeper)

\* C15: no interleaving of Get, Add and fullPrune calls deadlocks: a
\* goroutine never waits for the map lock while it holds an entry lock, a
\* call that has returned holds no lock, the sweep holds the map lock for
\* reading and not for writing while it scans, some call under way can always
\* take a step, and every call returns in the end.
C15_NoDeadlock ==
    /\ []C15_LockDiscipline
    /\ \A t \in Threads : InCall(t) ~> ~InCall(t)

\* the sweep scans under the read lock and waits for the lock of an entry
\* that a Get holds, while an Add waits for the readers to leave
C15_Witness ==
    /\ Th(Sweeper).pc = "fullPrune.range" /\ Th(Sweeper).todo # {}
    /\ \E a, g \in Clients :
        /\ Th(a).pc = "Add.Locked"
        /\ Th(g).pc = "Get.Unlock"
        /\ \A id \in Th(Sweeper).todo : conc.map[id] = Th(g).entry

\* the answer NewRecursiveResolver stores under (".", DNSKEY)
TrustAnchor == Answer(rootKeys, <<>>, <<>>, RcodeSuccess, TRUE)

\* C21: once NewRecursiveResolver has stored the trust anchors under
\* (".", DNSKEY), no Lookup overwrites or removes the entry: a Get for
\* (".", DNSKEY) returns the trust-anchor answer, whatever was asked and
\* whatever the nameservers sent.
C21_TrustAnchorStays ==
    rr.cache => Get(cache, RootKeyQuestion) = TrustAnchor

\* Lookups have run, one of them for (".", DNSKEY) itself, and have stored
\* other answers in the cache
C21_Witness ==
    /\ rr.cache
    /\ calls = MaxLookups
    /\ outcome.done /\ outcome.frame.q = RootKeyQuestion
    /\ outcome.frame.ret.answer = TrustAnchor
    /\ Cardinality(DOMAIN cache) > 1

\* the errors of the denial proofs and of the DNSSEC checks
DenialErrors ==
    {ErrNSECTypeExists, ErrNSECMultipleCoverage, ErrNSECMissingCoverage,
     ErrNSECBadDelegation, ErrNSECNSMissing}
DNSSECErrors ==
    {ErrNoDNSKEY, ErrMissingKSK, ErrFailedToConvertKSK, ErrMismatchingDS,
     ErrNoSignatures, ErrMissingDNSKEY, ErrInvalidSignaturePeriod,
     ErrRecordsMissing, ErrVerify, ErrUnsignedDelegation}

\* C22: when an iteration of Lookup (the step from the response of its query
\* to the return) fails with a denial error or a DNSSEC error, Lookup returns
\* that error with a nil Answer and the log entry of the step has
\* DNSSECValid = false.
C22_FailedStepNotValid ==
    [][(/\ stack # <<>> /\ Len(stack') = Len(stack)
        /\ Top.pc = "validate" /\ Top'.pc = "done"
        /\ Top'.ret.err \in DenialErrors \cup DNSSECErrors)
       => /\ Top'.ret.answer = NilAnswer
          /\ CurLog(Top').Error = Top'.ret.err
          /\ ~CurLog(Top').DNSSECValid]_vars

\* C23: once the caller's context is cancelled, Lookup starts no further
\* iteration: at the head of the loop no query is made that hands the
\* iteration a response to validate and classify, not even a response served
\* from the cache.
C23_NoIterationAfterCancel ==
    [][(/\ ctxDone /\ stack # <<>> /\ Len(stack') = Len(stack)
        /\ Top.pc = "query")
       => Top'.pc # "validate"]_vars

\* what a search that allows exactly one hit returns for the hits ks
OneOf(ks, nsec) ==
    IF ks = {} THEN [types |-> {}, err |-> ErrNSECMissingCoverage]
    ELSE IF Cardinality(ks) > 1 THEN [types |-> {}, err |-> ErrNSECMultipleCoverage]
    ELSE [types |-> nsec[CHOOSE k \in ks : TRUE].TypeBitMap, err |-> NoError]

\* C24: findMatching returns the type bitmap of the record that matches the
\* name when exactly one record matches, the missing-coverage error when
\* none does and the multiple-coverage error when more than one does;
\* findCoverer does the same for the records that cover the name.
C24_ExactlyOneHit ==
    /\ DenialCalled("findMatching") =>
        fnOut.res = OneOf(Matching(fnIn.name, fnIn.nsec), fnIn.nsec)
    /\ DenialCalled("findCoverer") =>
        fnOut.res = OneOf(Covering(fnIn.name, fnIn.nsec), fnIn.nsec)

\* the suffixes of a name that are made of whole labels, from the name
\* itself down to the root
Suffixes(name) ==
    {From(name, p) : p \in {x \in 1..Len(name) : x = 1 \/ name[x - 1] = "."}}
    \cup {Root}

\* C25: findClosestEncloser returns as closest encloser the longest
\* whole-label suffix of the name that some record matches, and as next
\* closer the suffix one label longer (the name itself when the closest
\* encloser is the name); it returns empty names when no suffix is matched.
C25_LongestMatchedSuffix ==
    DenialCalled("findClosestEncloser") =>
        LET name == fnIn.name
            matched == {z \in Suffixes(name) : Matching(z, fnIn.nsec) # {}}
            ce == CHOOSE z \in matched : \A y \in matched : Len(y) <= Len(z)
            longer == {z \in Suffixes(name) : Len(z) > Len(ce)}
            nc == IF ce = name THEN name
                  ELSE CHOOSE z \in longer : \A y \in longer : Len(z) <= Len(y)
        IN  fnOut.res = IF matched = {} THEN [ce |-> Empty, nc |-> Empty]
                        ELSE [ce |-> ce, nc |-> nc]

SigCalled(fn) == fnOut.called /\ fnIn.fn = fn
\* the RRSIGs of a section, and what can be wrong with one of them
SigsOf(section) == {i \in DOMAIN section : section[i].rrtype = TypeRRSIG}
Uncovered(section, sig) ==
    ~\E i \in DOMAIN section :
        section[i].name = sig.name /\ section[i].rrtype = sig.TypeCovered
Keyless(sig, keyMap) == sig.KeyTag \notin DOMAIN keyMap
\* the errors verifyRRSIG can have for a section
SectionFaults(section, keyMap) ==
    IF section = <<>> THEN {}
    ELSE (IF SigsOf(section) = {} THEN {ErrNoSignatures} ELSE {})
         \cup {ErrRecordsMissing : i \in {j \in SigsOf(section) :
                                            Uncovered(section, section[j])}}
         \cup {ErrMissingDNSKEY : i \in {j \in SigsOf(section) :
                                           Keyless(section[j], keyMap)}}
         \cup {ErrVerify : i \in {j \in SigsOf(section) : ~section[j].verifies}}
         \cup {ErrInvalidSignaturePeriod :
                  i \in {j \in SigsOf(section) : ~section[j].inPeriod}}

\* C26: verifyRRSIG checks the answer and the authority section each on its
\* own: an empty section is skipped, a section without RRSIG fails with
\* ErrNoSignatures, and an RRSIG fails the check when no record of its section
\* has its owner and covered type, when the key map has no key for its key
\* tag (ErrMissingDNSKEY), when it does not verify (the error of Verify) or
\* when the time is outside its validity (ErrInvalidSignaturePeriod); the
\* result is nil exactly when none of these occurs, and otherwise the error of
\* one of those that occur.
C26_VerifyRRSIGFaults ==
    SigCalled("verifyRRSIG") =>
        LET faults == SectionFaults(fnIn.msg.Answer, fnIn.keyMap)
                        \cup SectionFaults(fnIn.msg.Ns, fnIn.keyMap)
        IN  IF faults = {} THEN fnOut.res = NoError ELSE fnOut.res \in faults

\* both sections hold a record and a signature over it that passes
C26_Witness ==
    /\ SigCalled("verifyRRSIG")
    /\ fnIn.msg.Answer # <<>> /\ fnIn.msg.Ns # <<>>
    /\ fnOut.res = NoError

\* C27: checkDS returns ErrMissingKSK exactly when no DS of the set has a key
\* tag that is in the key map; otherwise the first DS of the set whose key
\* tag is in the key map decides: nil when the digest made from that DNSKEY
\* equals the DS digest, ErrMismatchingDS when it differs and
\* ErrFailedToConvertKSK when it cannot be made.
C27_FirstKnownDSDecides ==
    SigCalled("checkDS") =>
        LET ds == fnIn.dsSet
            known == {i \in DOMAIN ds : ds[i].KeyTag \in DOMAIN fnIn.keyMap}
            first == CHOOSE i \in known : \A j \in known : i <= j
        IN  /\ fnOut.res = ErrMissingKSK <=> known = {}
            /\ known # {} =>
                fnOut.res = CASE ds[first].digest = "match" -> NoError
                              [] ds[first].digest = "differ" -> ErrMismatchingDS
                              [] OTHER -> ErrFailedToConvertKSK

\* the first DS has no key in the map, the second has one whose digest
\* differs
C27_Witness ==
    /\ SigCalled("checkDS")
    /\ Len(fnIn.dsSet) = 2
    /\ fnIn.dsSet[1].KeyTag \notin DOMAIN fnIn.keyMap
    /\ fnIn.dsSet[2].KeyTag \in DOMAIN fnIn.keyMap
    /\ fnOut.res = ErrMismatchingDS

\* the DNSKEYs of a response that lookupDNSKEY takes as keys
FlaggedKeys(answer) ==
    {answer[i] : i \in {j \in DOMAIN answer :
        answer[j].rrtype = TypeDNSKEY /\ answer[j].Flags \in {256, 257}}}

After == stack'[Len(stack)]
HasType(section, t) == \E i \in DOMAIN section : section[i].rrtype = t
\* a step of the running Lookup that works on the response of its query
Classifies ==
    /\ stack # <<>> /\ Len(stack') >= Len(stack)
    /\ Top.pc = "validate" /\ After.pc # "validate"

\* C29: a NOERROR response with an empty answer section whose authority
\* section includes NSEC3 records, alone or with other records such as SOA and
\* RRSIG, is classified as NODATA and never as a referral: unless a check of
\* the step fails, Lookup returns rcode 0 with the validation status of the
\* step.  (Stated of authority sections without NS record.)
C29_NODATAWithOtherRecords ==
    [][(/\ Classifies
        /\ Top.r.Rcode = RcodeSuccess /\ Top.r.Answer = <<>>
        /\ HasType(Top.r.Ns, TypeNSEC3) /\ ~HasType(Top.r.Ns, TypeNS))
       => /\ ~CurLog(After).Referral
          /\ After.pc = "done"
          /\ After.ret.err = NoError =>
                After.ret.answer =
                    Answer(<<>>, <<>>, <<>>, RcodeSuccess, CurLog(After).DNSSECValid)]_vars

\* C30: when Lookup receives a referral from a signed parent (one whose
\* response was signature-validated in this iteration, the root in the first
\* iteration included) and the authority section of the referral holds no
\* NSEC3 record, Lookup fails with the unsigned-delegation error and does not
\* follow the referral.  (Stated of referrals that come with glue.)
C30_UnsignedDelegationFails ==
    [][(/\ Classifies
        /\ Top.r.Rcode = RcodeSuccess /\ Top.r.Answer = <<>>
        /\ HasType(Top.r.Ns, TypeNS) /\ ~HasType(Top.r.Ns, TypeNSEC3)
        /\ \A pick \in pickAuthority(Top.r.Ns, Top.r.Extra) : pick.kind = "ns"
        /\ ~CurLog(After).CacheHit /\ CurLog(After).DNSSECValid
        /\ CurLog(After).Referral)
       => /\ After.pc = "done"
          /\ After.ret.err = ErrUnsignedDelegation]_vars

\* the answer, RRSIG records left out, is a single DNAME record
SingleDNAME ==
    /\ fnOut.called
    /\ LET f == filterRRSet(fnIn.answer, {TypeRRSIG})
       IN  Len(f) = 1 /\ f[1].rrtype = TypeDNAME
TheDNAME == filterRRSet(fnIn.answer, {TypeRRSIG})[1]
\* owner is a proper suffix of name that starts at a label boundary
StrictAncestor(owner, name) == owner # name /\ LabelAligned(name, owner)

\* C31: isAlias treats a single DNAME record as an alias only when the
\* question type is not DNAME and the owner of the DNAME is a strict
\* ancestor of the question name (a proper suffix at a label boundary,
\* never the question name itself); the new name is then the question
\* name with the owner suffix replaced by the target of the DNAME.
C31_DNAMEStrictAncestor ==
    (SingleDNAME /\ fnOut.res.ok) =>
        /\ fnIn.q.Type # TypeDNAME
        /\ StrictAncestor(TheDNAME.name, fnIn.q.Name)
        /\ \E prefix \in {SubSeq(fnIn.q.Name, 1, k) : k \in 0..Len(fnIn.q.Name)} :
              /\ fnIn.q.Name = prefix \o TheDNAME.name
              /\ fnOut.res.name = prefix \o TheDNAME.target

\* C32: whenever the DNAME substitution yields a name longer than 255
\* octets, isAlias returns the DNAME-too-long error and reports no alias;
\* it reports an alias only for substituted names of at most 255 octets.
C32_SubstitutedNameAtMost255 ==
    (/\ SingleDNAME
     /\ fnIn.q.Type # TypeDNAME
     /\ HasSuffix(fnIn.q.Name, TheDNAME.name)) =>
        LET sname == TrimSuffix(fnIn.q.Name, TheDNAME.name) \o TheDNAME.target
        IN  /\ Len(sname) > 255 =>
                  ~fnOut.res.ok /\ fnOut.res.err = dnameTooLong
            /\ fnOut.res.ok => Len(sname) <= 255

\* the answer of a name error or of a response without data
Negative(a) ==
    \/ a.Rcode = RcodeNameError
    \/ a.Rcode = RcodeSuccess /\ a.Answer = <<>>

\* C33: Lookup returns Authenticated = true for a negative result (name
\* error, or rcode 0 and no records) only if the denial proof of that kind
\* (verifyNameError or verifyNODATA) was run on NSEC3 records of the
\* response and succeeded; a response with empty answer and authority
\* sections, or without NSEC3 record, is never returned as an authenticated
\* negative answer.
C33_NegativeNeedsProof ==
    [][(/\ Classifies
        /\ After.pc = "done" /\ After.ret.err = NoError
        /\ Negative(After.ret.answer)
        /\ After.ret.answer.Authenticated)
       => LET nsecSet == extractRRSet(Top.r.Ns, Empty, {TypeNSEC3})
          IN  /\ nsecSet # <<>>
              /\ IF Top.r.Rcode = RcodeNameError
                 THEN verifyNameError(Top.q, nsecSet) = NoError
                 ELSE verifyNODATA(Top.q, nsecSet) = NoError]_vars

\* C34: at the head of every iteration of Lookup, if the authority is a
\* root nameserver then parentDSSet is empty; in particular, after an alias
\* chase has reset the authority to a root nameserver, the next response is
\* validated as a response of the root, not against the DS set of the zone
\* that returned the alias.
C34_RootHasNoParentDS ==
    \A k \in DOMAIN stack :
        (stack[k].pc = "query" /\ stack[k].authority \in rootNameservers)
            => stack[k].parentDSSet = <<>>

\* C35: collapseCNAMEChain terminates for every set of CNAME records and
\* every question name, a set whose CNAMEs form a cycle reachable from the
\* question name included (a -> b and b -> a in one response); so isAlias
\* returns on every answer section.
C35_CollapseTerminates ==
    fnOut.called => ~fnOut.res.diverged

\* C36: with Add calls running concurrently with the sweep, fullPrune never
\* removes an entry that is unexpired at the moment it is deleted: an entry
\* that the scan saw expired and an Add refreshed before the delete step
\* stays in the cache.
C36_DeletesOnlyExpired ==
    [][\A id \in DOMAIN cache \ DOMAIN cache' : expired(cache[id], now)]_vars

\* a referral of a signed delegation: NS records, DS records and their
\* RRSIGs, no NSEC3 record, and the address of a nameserver in the glue
SignedReferral(r) ==
    /\ r.Rcode = RcodeSuccess /\ r.Answer = <<>>
    /\ HasType(r.Ns, TypeNS) /\ HasType(r.Ns, TypeDS) /\ HasType(r.Ns, TypeRRSIG)
    /\ ~HasType(r.Ns, TypeNSEC3)
    /\ \A pick \in pickAuthority(r.Ns, r.Extra) : pick.kind = "ns"

\* the only DS records a Lookup ever holds are those of the first
\* delegation, the one the root sent
OnlyFirstDelegationDS ==
    \A f \in Frames : \A k \in DOMAIN f.parentDSSet : f.parentDSSet[k].name = ZoneC

\* C37: a chain of signed delegations deeper than one delegation below the
\* root is resolvable as authenticated: a Lookup that has crossed a signed
\* delegation (it holds the DS set of the zone it is asking) and receives
\* from that zone a validated referral of a further signed delegation (NS
\* records, DS records of the child and their RRSIGs, no NSEC3 record)
\* crosses it too, going on with the DS set of the child.
C37_SignedChainResolvable ==
    [][(/\ Classifies
        /\ Top.parentDSSet # <<>>
        /\ SignedReferral(Top.r)
        /\ ~CurLog(After).CacheHit /\ CurLog(After).DNSSECValid)
       => /\ After.pc = "query"
          /\ After.parentDSSet # <<>>
          /\ \A k \in DOMAIN After.parentDSSet :
                After.parentDSSet[k].name = After.authority.Zone]_vars

\* C38: in every Lookup, of a resolver built with a nil cache as of one
\* built with a cache, the key map that verifies the signatures of a
\* response of a root nameserver consists of the trust-anchor DNSKEYs given
\* to NewRecursiveResolver; a root DNSKEY set fetched from the network is
\* never used for validation unchecked.
C38_RootKeyMapIsTrustAnchor ==
    \A f \in Frames :
        (f.keys.zone = Root /\ f.keys.keyMap # NoKeyMap)
            => f.keys.keyMap = keyMapOf(rootKeys)

\* C39: Lookup never issues a query for an empty name: whenever isAlias
\* reports an alias, the canonical name it returns is not empty, also for
\* an answer of several CNAME records none of which is owned by the
\* question name.
C39_AliasNameNotEmpty ==
    (fnOut.called /\ ~fnOut.res.diverged /\ fnOut.res.ok)
        => fnOut.res.name # Empty

====
